---- MODULE Spec2Model ----
(***************************************************************************)
(* A model of intactjs/intact: the VNode unmount walk (misstime/core/      *)
(* unmount.ts), the Component runtime (misstime/components/component.ts)   *)
(* and the template parser (vdt/compiler/parser.ts).                       *)
(*                                                                         *)
(* A fourth part is the keyed children diff of a container element, which  *)
(* the Component tests drive through render(vNode, container).             *)
(*                                                                         *)
(* The parts share no state.  Each has a specification of its own          *)
(* (SpecUnmount, SpecComponent, SpecParser, SpecPatch); a specification    *)
(* leaves the variables of the other parts at their idle value.            *)
(***************************************************************************)
EXTENDS Integers, Sequences, FiniteSets, TLC

VARIABLES
    \* ---- unmount.ts
    uTree,        \* the VNode tree handed to unmount
    uPhase,       \* "mounted" | "unmounted"
    uLog,         \* the calls unmount(root) made on its collaborators, in order
    \* ---- component.ts: one Component instance and what it did
    cPhase,       \* "new" before the constructor ran, then "constructed"
    cProduction,  \* process.env.NODE_ENV === 'production'
    comp,         \* the instance: props, $inited, $rendered, $mounted, $unmounted,
                  \* $lastInput, the listeners of its Event base class
    cPromise,     \* the thenable init returned: "none" | "pending" | "fulfilled" | "rejected"
    cTrigger,     \* triggerReceiveEvents: the props mountProps received
    cDeferred,    \* renderAsyncComponent waits for init to settle
    cCalls,       \* how often componentInited, a render/patch cycle, a DOM
                  \* mutation, console.error have run
    cHooks,       \* the lifecycle hooks called so far, in order
    cNotified,    \* the events the last operation fired to listeners
    cLastOp,      \* the last operation and its arguments
    \* ---- parser.ts: one Parser instance
    source,       \* this.source, a sequence of characters
    production,   \* process.env.NODE_ENV === 'production'
    cur,          \* this.index, this.line, this.column and the error thrown, if any
    nodes,        \* the nodes of the root parse loop
    braces,       \* the root parse loop's braces.count
    pstatus,      \* "parsing" | "done" | "error" | "hang"
    ast,          \* this.ast as a one-element sequence, empty until assigned
    \* ---- the keyed children of one container element
    kPhase,       \* "idle" | "mounted" after render(vNode1) | "patched" after render(vNode2)
    kOld,         \* the children array of vNode1
    kNew,         \* the children array of vNode2
    kDom,         \* container.childNodes, in order
    kLog          \* the mounts, unmounts and moves of children, in order

uvars == <<uTree, uPhase, uLog>>
cvars == <<cPhase, cProduction, comp, cPromise, cTrigger, cDeferred, cCalls,
           cHooks, cNotified, cLastOp>>
pvars == <<source, production, cur, nodes, braces, pstatus, ast>>
kvars == <<kPhase, kOld, kNew, kDom, kLog>>
vars == <<uvars, cvars, pvars, kvars>>

(***************************************************************************)
(* Bounds                                                                  *)
(***************************************************************************)
\* number of VNodes of a tree handed to unmount
MaxNodes == 3
\* update cycles of the component after its first render
MaxUpdates == 1
\* number of pieces a script source is put together from
MaxPieces == 3
\* number of children of the element of a markup source
MaxChildren == 3
\* number of pieces after the opening tag of a source that is left open
MaxTail == 3
\* number of children of an element whose closing tag is written freely
MaxClosedChildren == 1
\* number of attributes of the element of an attribute source
MaxAttrs == 2
\* number of pieces of the script of an indented expression
MaxBody == 3
\* number of pieces before the / of a script with one /
MaxBefore == 2

(***************************************************************************)
(* utils/types.ts: the Types and ChildrenTypes bit flags                   *)
(***************************************************************************)
Types_Text == 1
Types_CommonElement == 2
Types_ComponentClass == 4
Types_ComponentFunction == 8
Types_InputElement == 32
Types_SelectElement == 64
Types_TextareaElement == 128
Types_SvgElement == 256
Types_Fragment == 2048
Types_FormElement == Types_InputElement + Types_SelectElement + Types_TextareaElement
Types_Element == Types_CommonElement + Types_FormElement + Types_SvgElement

HasInvalidChildren == 1
HasVNodeChildren == 2
HasNonKeyedChildren == 4
HasKeyedChildren == 8
HasTextChildren == 16
MultipleChildren == HasNonKeyedChildren + HasKeyedChildren

\* JavaScript's a & b on non-negative integers
RECURSIVE BitAnd(_, _)
BitAnd(a, b) ==
    IF a = 0 \/ b = 0 THEN 0
    ELSE (IF a % 2 = 1 /\ b % 2 = 1 THEN 1 ELSE 0) + 2 * BitAnd(a \div 2, b \div 2)

(***************************************************************************)
(* events/delegation.ts: the props that are delegated events               *)
(***************************************************************************)
delegatedEvents == {"ev-click"}

(***************************************************************************)
(* utils/types.ts VNode.  children is always a sequence here: the array of *)
(* a MultipleChildren node, the one VNode of a HasVNodeChildren node, the  *)
(* $lastInput of the instance a ComponentClass node holds in children, the *)
(* empty sequence for none.  props is the sequence of the props object's   *)
(* own keys in enumeration order, ref says whether a ref is set, hooks     *)
(* whether the instance defines beforeUnmount/unmounted, dom names the     *)
(* node's DOM handle (its path from the root).                             *)
(***************************************************************************)
VNode(type, childrenType, children, props, ref, hooks, dom) ==
    [type |-> type, childrenType |-> childrenType, children |-> children,
     props |-> props, ref |-> ref, hooks |-> hooks, dom |-> dom]

\* the (type, props, ref) an element of a generated tree may have
ElementKinds ==
    { <<Types_CommonElement, <<>>, FALSE>>,
      <<Types_CommonElement, <<"id", "ev-click">>, FALSE>>,
      <<Types_InputElement, <<"ev-click">>, TRUE>>,
      <<Types_SvgElement, <<"id">>, TRUE>> }

Element(k, childrenType, children, dom) ==
    VNode(k[1], childrenType, children, k[2], k[3], FALSE, dom)

\* the trees of exactly n VNodes whose root has DOM handle p
RECURSIVE TreesAt(_, _)
TreesAt(n, p) ==
    IF n = 0 THEN {}
    ELSE IF n = 1 THEN
        { VNode(Types_Text, HasInvalidChildren, <<>>, <<>>, FALSE, FALSE, p) }
        \cup { Element(k, ct, <<>>, p) :
                  k \in ElementKinds, ct \in {HasInvalidChildren, HasTextChildren} }
    ELSE
        LET one == TreesAt(n - 1, p \o <<1>>)
            two == UNION { { <<a, b>> : a \in TreesAt(i, p \o <<1>>),
                                        b \in TreesAt(n - 1 - i, p \o <<2>>) } :
                           i \in 1..(n - 2) }
        IN  { Element(k, HasVNodeChildren, <<c>>, p) : k \in ElementKinds, c \in one }
            \cup { Element(k, ct, cs, p) :
                      k \in ElementKinds, ct \in {HasNonKeyedChildren, HasKeyedChildren},
                      cs \in two }
            \cup { VNode(Types_Fragment, HasNonKeyedChildren, cs, <<>>, FALSE, FALSE, p) :
                      cs \in two \cup { <<c>> : c \in one } }
            \cup { VNode(Types_ComponentClass, HasInvalidChildren, <<c>>, <<>>, r, h, p) :
                      c \in one, r \in BOOLEAN, h \in BOOLEAN }
            \cup { VNode(Types_ComponentFunction, HasInvalidChildren, <<c>>, <<>>,
                          FALSE, FALSE, p) : c \in one }

Trees == UNION { TreesAt(n, <<>>) : n \in 1..MaxNodes }

(***************************************************************************)
(* core/unmount.ts.  unmount returns the calls it makes, in order.         *)
(***************************************************************************)
Call(op, dom, prop) == [op |-> op, dom |-> dom, prop |-> prop]

\* utils/ref.ts unmountRef: releases the ref when one is set
unmountRef(vNode) ==
    IF vNode.ref THEN << Call("unmountRef", vNode.dom, "") >> ELSE <<>>

\* for (const prop in props) if (delegatedEvents[prop]) unmountDelegatedEvent(prop, dom)
RECURSIVE unmountProps(_, _)
unmountProps(props, dom) ==
    IF props = <<>> THEN <<>>
    ELSE (IF Head(props) \in delegatedEvents
          THEN << Call("unmountDelegatedEvent", dom, Head(props)) >>
          ELSE <<>>) \o unmountProps(Tail(props), dom)

\* `else if (children)`: an array (even an empty one), an instance or a VNode is
\* truthy; a node without children holds null
childrenTruthy(vNode) ==
    vNode.type = Types_Fragment \/ vNode.children # <<>>

RECURSIVE unmount(_)
RECURSIVE unmountAllChildren(_)
RECURSIVE Component_unmount(_)

unmountReorderedFlag(vNode) ==
    (IF vNode.hooks THEN << Call("beforeUnmount", vNode.dom, "") >> ELSE <<>>)
    \o << Call("$unmounted=true", vNode.dom, "") >>
    \o unmount(vNode.children[1])
    \o << Call("off", vNode.dom, "") >>
    \o (IF vNode.hooks THEN << Call("unmounted", vNode.dom, "") >> ELSE <<>>)

\* Component.$unmount, on the instance the component VNode holds
Component_unmount(vNode) ==
    (IF vNode.hooks THEN << Call("beforeUnmount", vNode.dom, "") >> ELSE <<>>)
    \o unmount(vNode.children[1])
    \o << Call("$unmounted=true", vNode.dom, "") >>
    \o << Call("off", vNode.dom, "") >>
    \o (IF vNode.hooks THEN << Call("unmounted", vNode.dom, "") >> ELSE <<>>)

unmountAllChildren(children) ==
    IF children = <<>> THEN <<>>
    ELSE unmount(Head(children)) \o unmountAllChildren(Tail(children))

unmount(vNode) ==
    IF BitAnd(vNode.type, Types_Element) # 0 THEN
        unmountRef(vNode)
        \o unmountProps(vNode.props, vNode.dom)
        \o (IF BitAnd(vNode.childrenType, MultipleChildren) # 0
             THEN unmountAllChildren(vNode.children)
             ELSE IF vNode.childrenType = HasVNodeChildren
             THEN unmount(vNode.children[1])
             ELSE <<>>)
    ELSE IF childrenTruthy(vNode) THEN
        IF BitAnd(vNode.type, Types_ComponentClass) # 0
        THEN Component_unmount(vNode) \o unmountRef(vNode)
        ELSE <<>>
    ELSE <<>>

(***************************************************************************)
(* vdt/compiler/parser.ts: the state of a Parser                           *)
(***************************************************************************)
\* the parser state the routines thread: the cursor, the error once one is
\* thrown (ekind "ParseError": throwError; "TypeError": a runtime exception;
\* "Hang": a loop that never ends), and the development checks the parse has
\* executed so far
Cursor(index, line, column) ==
    [index |-> index, line |-> line, column |-> column,
     ok |-> TRUE, ekind |-> "", emsg |-> "", eline |-> 0, ecol |-> 0,
     validated |-> {}]

Loc(st) == [line |-> st.line, column |-> st.column]

\* the parser part at rest
IdleP ==
    /\ source = <<>>
    /\ production = FALSE
    /\ cur = Cursor(0, 1, 1)
    /\ nodes = <<>>
    /\ braces = 0
    /\ pstatus = "idle"
    /\ ast = <<>>

(***************************************************************************)
(* components/component.ts: the Component instance                         *)
(***************************************************************************)
Keys == {"x", "y"}
Values == {0, 1}
\* a props object: a function from some of the keys to values
PropsObjects == UNION { [d -> Values] : d \in SUBSET Keys }
EMPTY_OBJ == [k \in {} |-> 0]

\* {...a, ...b}
Merge(a, b) ==
    [k \in DOMAIN a \cup DOMAIN b |-> IF k \in DOMAIN b THEN b[k] ELSE a[k]]

NoOp == [op |-> "none", silent |-> FALSE, data |-> EMPTY_OBJ, force |-> FALSE]
NoCalls == [inited |-> 0, renders |-> 0, dom |-> 0, logged |-> 0, unhandled |-> 0]

\* the field initializers of lines 37-57
NewComponent ==
    [props |-> EMPTY_OBJ, inited |-> FALSE, rendered |-> FALSE, mounted |-> FALSE,
     unmounted |-> FALSE, lastInput |-> "null", listeners |-> {}]

\* the component part at rest
IdleK ==
    /\ kPhase = "idle"
    /\ kOld = <<>>
    /\ kNew = <<>>
    /\ kDom = <<>>
    /\ kLog = <<>>

IdleC ==
    /\ cPhase = "new"
    /\ cProduction = FALSE
    /\ comp = NewComponent
    /\ cPromise = "none"
    /\ cTrigger = {}
    /\ cDeferred = FALSE
    /\ cCalls = NoCalls
    /\ cHooks = <<>>
    /\ cNotified = {}
    /\ cLastOp = NoOp

\* the instance together with what it has done
World == [comp |-> comp, calls |-> cCalls, hooks |-> cHooks, deferred |-> cDeferred]
SetWorld(w) ==
    /\ comp' = w.comp
    /\ cCalls' = w.calls
    /\ cHooks' = w.hooks
    /\ cDeferred' = w.deferred

\* Event.trigger: the events among evs that have a listener
Fired(evs, listeners) == evs \cap listeners

\* utils/component.ts renderSyncComponnet: the template is rendered into
\* $lastInput and mounted into the DOM
renderSyncComponnet(w) ==
    [w EXCEPT !.comp.rendered = TRUE, !.comp.lastInput = "vnode",
              !.calls.renders = @ + 1, !.calls.dom = @ + 1]

\* utils/component.ts renderAsyncComponent: a placeholder comment is mounted and
\* the real render waits for init to settle
renderAsyncComponent(w) ==
    [w EXCEPT !.comp.lastInput = "placeholder", !.calls.dom = @ + 1,
              !.deferred = TRUE]

\* Component.$mount
Component_mount(w) ==
    [w EXCEPT !.comp.mounted = TRUE, !.hooks = Append(@, "mounted")]

\* utils/component.ts componentInited: the component is inited; a render deferred
\* by renderAsyncComponent is resumed unless the component was unmounted meanwhile
componentInited(w) ==
    LET w1 == [w EXCEPT !.comp.inited = TRUE, !.calls.inited = @ + 1,
                        !.deferred = FALSE]
    IN  IF w.deferred /\ ~w.comp.unmounted
        THEN Component_mount(renderSyncComponnet(w1))
        ELSE w1

\* one update cycle: beforeUpdate, render, patch against $lastInput, updated
updateCycle(w) ==
    [w EXCEPT !.comp.lastInput = "vnode",
              !.calls.renders = @ + 1, !.calls.dom = @ + 1,
              !.hooks = @ \o <<"beforeUpdate", "updated">>]

\* utils/component.ts forceUpdate: a cycle once the component has rendered
forceUpdate(w) == IF w.comp.rendered THEN updateCycle(w) ELSE w

\* the keys of data whose value differs from the stored one
Changes(props, data) ==
    { k \in DOMAIN data : k \notin DOMAIN props \/ props[k] # data[k] }

\* utils/component.ts setProps: merge into the store, then a cycle if anything
\* changed
setProps(w, data) ==
    LET w1 == [w EXCEPT !.comp.props = Merge(@, data)]
    IN  IF Changes(w.comp.props, data) # {} THEN forceUpdate(w1) ELSE w1

Op(op, silent, data, force) ==
    [op |-> op, silent |-> silent, data |-> data, force |-> force]

InitC ==
    /\ cPhase = "new"
    /\ cProduction \in BOOLEAN
    /\ comp = NewComponent
    /\ cPromise = "none"
    /\ cTrigger = {}
    /\ cDeferred = FALSE
    /\ cCalls = NoCalls
    /\ cHooks = <<>>
    /\ cNotified = {}
    /\ cLastOp = NoOp
    /\ uTree = << >> /\ uPhase = "idle" /\ uLog = <<>>
    /\ IdleP
    /\ IdleK

\* new Component(props, mountedQueue); init is absent or returns a value
\* ("value") or returns a thenable ("thenable")
Construct(nullProps, props, init) ==
    /\ cPhase = "new"
    /\ cPhase' = "constructed"
    /\ nullProps => props = EMPTY_OBJ
    /\ cTrigger' = IF nullProps THEN {} ELSE DOMAIN props
    /\ LET w == [World EXCEPT !.comp.props = Merge(EMPTY_OBJ, props)]
       IN  IF init = "thenable"
           THEN /\ cPromise' = "pending"
                /\ SetWorld(w)
           ELSE /\ cPromise' = "none"
                /\ SetWorld(componentInited(w))
    /\ cNotified' = {}
    /\ cLastOp' = Op("construct", FALSE, props, FALSE)
    /\ UNCHANGED <<cProduction, uvars, pvars, kvars>>

\* the thenable is fulfilled: () => componentInited(this, triggerReceiveEvents)
SettleFulfilled ==
    /\ cPromise = "pending"
    /\ cPromise' = "fulfilled"
    /\ SetWorld(componentInited(World))
    /\ cNotified' = Fired({ <<"$receive", k>> : k \in cTrigger }, comp.listeners)
    /\ cLastOp' = Op("settle", FALSE, EMPTY_OBJ, FALSE)
    /\ UNCHANGED <<cPhase, cProduction, cTrigger, uvars, pvars, kvars>>

\* a constructor that attaches no rejection handler
SettleRejectedUnhandled ==
    /\ cPromise = "pending"
    /\ cPromise' = "rejected"
    /\ SetWorld([World EXCEPT !.calls.unhandled = @ + 1])
    /\ cNotified' = {}
    /\ cLastOp' = Op("settle", FALSE, EMPTY_OBJ, FALSE)
    /\ UNCHANGED <<cPhase, cProduction, cTrigger, uvars, pvars, kvars>>

\* the thenable is rejected: err => { console.error(...); componentInited(...) }
SettleRejected ==
    /\ cPromise = "pending"
    /\ cPromise' = "rejected"
    /\ SetWorld(componentInited(
           [World EXCEPT !.calls.logged = IF cProduction THEN @ ELSE @ + 1]))
    /\ cNotified' = Fired({ <<"$receive", k>> : k \in cTrigger }, comp.listeners)
    /\ cLastOp' = Op("settle", FALSE, EMPTY_OBJ, FALSE)
    /\ UNCHANGED <<cPhase, cProduction, cTrigger, uvars, pvars, kvars>>

\* watch(key, callback)
Watch(key) ==
    /\ cPhase = "constructed"
    /\ comp' = [comp EXCEPT !.listeners = @ \cup {<<"$change", key>>, <<"$receive", key>>}]
    /\ cNotified' = {}
    /\ cLastOp' = Op("watch", FALSE, EMPTY_OBJ, FALSE)
    /\ UNCHANGED <<cPhase, cProduction, cPromise, cTrigger, cDeferred, cCalls,
                   cHooks, uvars, pvars, kvars>>

\* $render(lastVNode, nextVNode, parentDom, anchor, mountedQueue), called once by
\* the mount of the component's VNode
Render ==
    /\ cPhase = "constructed"
    /\ comp.lastInput = "null"
    /\ ~comp.unmounted
    /\ SetWorld(IF comp.inited THEN renderSyncComponnet(World)
                ELSE renderAsyncComponent(World))
    /\ cNotified' = {}
    /\ cLastOp' = Op("render", FALSE, EMPTY_OBJ, FALSE)
    /\ UNCHANGED <<cPhase, cProduction, cPromise, cTrigger, uvars, pvars, kvars>>

\* $mount(lastVNode, nextVNode), called from the mounted queue
Mount ==
    /\ comp.rendered /\ ~comp.mounted /\ ~comp.unmounted
    /\ SetWorld(Component_mount(World))
    /\ cNotified' = {}
    /\ cLastOp' = Op("mount", FALSE, EMPTY_OBJ, FALSE)
    /\ UNCHANGED <<cPhase, cProduction, cPromise, cTrigger, uvars, pvars, kvars>>

\* a set whose silent branch does not return
setWithoutReturn(data, form, silent) ==
    /\ cPhase = "constructed"
    /\ cCalls.renders <= MaxUpdates
    /\ form = "key" => Cardinality(DOMAIN data) = 1
    /\ SetWorld(setProps(World, data))
    /\ cNotified' = Fired({ <<"$change", k>> : k \in Changes(comp.props, data) },
                          comp.listeners)
    /\ cLastOp' = Op("set", silent, data, FALSE)
    /\ UNCHANGED <<cPhase, cProduction, cPromise, cTrigger, uvars, pvars, kvars>>

\* set(key, value, options) (form "key") and set(data, options) (form "object");
\* silent is options !== undefined && options.silent
Component_set(data, form, silent) ==
    /\ cPhase = "constructed"
    /\ silent \/ cCalls.renders <= MaxUpdates
    /\ form = "key" => Cardinality(DOMAIN data) = 1
    /\ IF silent
       THEN /\ SetWorld([World EXCEPT !.comp.props = Merge(@, data)])
            /\ cNotified' = {}
       ELSE /\ SetWorld(setProps(World, data))
            /\ cNotified' = Fired({ <<"$change", k>> : k \in Changes(comp.props, data) },
                                  comp.listeners)
    /\ cLastOp' = Op("set", silent, data, FALSE)
    /\ UNCHANGED <<cPhase, cProduction, cPromise, cTrigger, uvars, pvars, kvars>>

\* forceUpdate(callback)
ForceUpdate ==
    /\ cPhase = "constructed"
    /\ cCalls.renders <= MaxUpdates
    /\ SetWorld(IF comp.unmounted THEN World ELSE forceUpdate(World))
    /\ cNotified' = {}
    /\ cLastOp' = Op("forceUpdate", FALSE, EMPTY_OBJ, FALSE)
    /\ UNCHANGED <<cPhase, cProduction, cPromise, cTrigger, uvars, pvars, kvars>>

\* $update(lastVNode, nextVNode, parentDom, anchor, mountedQueue, force); an
\* update that is not forced may reuse the previous output (skip)
Update(force, skip) ==
    /\ cPhase = "constructed"
    /\ comp.lastInput # "null"
    /\ cCalls.renders <= MaxUpdates
    /\ force => ~skip
    /\ SetWorld(IF comp.inited
                THEN (IF skip THEN World ELSE updateCycle(World))
                ELSE World)
    /\ cNotified' = {}
    /\ cLastOp' = Op("update", FALSE, EMPTY_OBJ, force)
    /\ UNCHANGED <<cPhase, cProduction, cPromise, cTrigger, uvars, pvars, kvars>>

\* a $unmount that does not set $unmounted
unmountWithoutFlag ==
    /\ cPhase = "constructed"
    /\ comp.lastInput # "null"
    /\ "beforeUnmount" \notin { cHooks[i] : i \in 1..Len(cHooks) }
    /\ SetWorld([World EXCEPT !.comp.listeners = {},
                              !.hooks = @ \o <<"beforeUnmount", "unmounted">>])
    /\ cNotified' = {}
    /\ cLastOp' = Op("unmount", FALSE, EMPTY_OBJ, FALSE)
    /\ UNCHANGED <<cPhase, cProduction, cPromise, cTrigger, uvars, pvars, kvars>>

\* $unmount(vNode, nextVNode), called once by the unmount of the component's VNode
ComponentUnmount ==
    /\ cPhase = "constructed"
    /\ comp.lastInput # "null"
    /\ "beforeUnmount" \notin { cHooks[i] : i \in 1..Len(cHooks) }
    /\ SetWorld([World EXCEPT !.comp.unmounted = TRUE,
                              !.comp.listeners = {},
                              !.hooks = @ \o <<"beforeUnmount", "unmounted">>])
    /\ cNotified' = {}
    /\ cLastOp' = Op("unmount", FALSE, EMPTY_OBJ, FALSE)
    /\ UNCHANGED <<cPhase, cProduction, cPromise, cTrigger, uvars, pvars, kvars>>

NextC ==
    \/ \E nullProps \in BOOLEAN, props \in PropsObjects,
          init \in {"absent", "value", "thenable"} : Construct(nullProps, props, init)
    \/ SettleFulfilled
    \/ SettleRejected
    \/ \E key \in Keys : Watch(key)
    \/ Render
    \/ Mount
    \/ \E force, skip \in BOOLEAN : Update(force, skip)
    \/ ForceUpdate
    \/ \E data \in PropsObjects, form \in {"key", "object"}, silent \in BOOLEAN :
          Component_set(data, form, silent)
    \/ ComponentUnmount

SpecComponent == InitC /\ [][NextC]_vars

(***************************************************************************)
(* Claims about the Component                                              *)
(***************************************************************************)
HooksCalled == { cHooks[i] : i \in 1..Len(cHooks) }

\* C4: componentInited runs exactly once per construction: inside the
\* constructor when init is absent or returns no thenable, else when the
\* thenable settles, fulfilled or rejected; a rejection is logged (outside
\* production) and reaches nobody else.
C4_InitedExactlyOnce ==
    cPhase = "constructed" =>
        /\ cCalls.inited = (IF cPromise = "pending" THEN 0 ELSE 1)
        /\ comp.inited = (cPromise # "pending")
        /\ cCalls.logged = (IF cPromise = "rejected" /\ ~cProduction THEN 1 ELSE 0)
        /\ cCalls.unhandled = 0

\* init was rejected and the component is inited all the same
C4_Witness ==
    /\ cPromise = "rejected"
    /\ comp.inited
    /\ cCalls.inited = 1

C6_SilentSetOnlyWritesStore ==
    [][ /\ (cLastOp'.op = "set" /\ cLastOp'.silent)
           => /\ comp' = [comp EXCEPT !.props = Merge(comp.props, cLastOp'.data)]
              /\ cCalls' = cCalls
              /\ cHooks' = cHooks
              /\ cNotified' = {}
        /\ (cLastOp'.op = "set" /\ ~cLastOp'.silent)
           => comp'.props = Merge(comp.props, cLastOp'.data) ]_vars

\* a silent set of a watched key on a mounted component
C6_Witness ==
    /\ cLastOp.op = "set" /\ cLastOp.silent
    /\ comp.mounted /\ ~comp.unmounted
    /\ \E k \in DOMAIN cLastOp.data : <<"$change", k>> \in comp.listeners

\* C8: once $unmounted is true it stays true, and no forceUpdate, non-silent
\* set or $update starts a render/patch cycle any more.
C8_UnmountedIsTerminal ==
    [][ comp.unmounted => (comp'.unmounted /\ cCalls'.renders = cCalls.renders) ]_vars

(***************************************************************************)
(* vdt/compiler/parser.ts: the cursor                                      *)
(***************************************************************************)
\* a local constant: F of the value of e, with e evaluated once
Bind(e, F(_)) == CHOOSE y \in {F(v) : v \in {e}} : TRUE

length == Len(source)

\* this.source.charAt(index): "" outside the source
char(index) == IF index >= 0 /\ index < length THEN source[index + 1] ELSE ""

\* this.source.slice(start, index)
getValue(start, index) ==
    LET b == IF index > length THEN length ELSE index
    IN  IF start >= b THEN <<>> ELSE SubSeq(source, start + 1, b)

\* this.source.slice(index, index + expect.length) === expect
isExpect(expect, index) ==
    /\ index >= 0
    /\ index + Len(expect) <= length
    /\ \A i \in 1..Len(expect) : source[index + i] = expect[i]

Lower == {"a", "b", "c", "d", "e", "f", "g", "h", "i", "j", "k", "l", "m", "n",
          "o", "p", "q", "r", "s", "t", "u", "v", "w", "x", "y", "z"}
Upper == {"A", "B", "C", "D", "E", "F", "G", "H", "I", "J", "K", "L", "M", "N",
          "O", "P", "Q", "R", "S", "T", "U", "V", "W", "X", "Y", "Z"}
\* the grave accent (U+0060), which a TLA+ string cannot hold
Backtick == "U+0060"
Digit == {"0", "1", "2", "3", "4", "5", "6", "7", "8", "9"}

\* utils/helpers.ts
isWhiteSpace(ch) == ch \in {" ", "\n", "\r", "\t", "\f"}
isWhiteSpaceExceptLinebreak(ch) == ch \in {" ", "\t", "\f"}
isJSIdentifierPart(ch) == ch \in Lower \cup Upper \cup Digit \cup {"$", "_"}
isJSXIdentifierPart(ch) == ch \in Lower \cup Upper \cup Digit \cup {"$", "_", ":", "-", "."}
\* \w of tagNameRegexp
isWord(ch) == ch \in Lower \cup Upper \cup Digit \cup {"_"}

\* defaultOptions.delimiters
delimiters == << <<"{">>, <<"}">> >>

updateIndex(st, n) == [st EXCEPT !.index = @ + n, !.column = @ + n]

updateLine(st) == [st EXCEPT !.line = @ + 1, !.column = 0]

\* utils/helpers.ts throwError(msg, loc, source)
throwError(st, msg, loc) ==
    IF ~st.ok THEN st
    ELSE [st EXCEPT !.ok = FALSE, !.ekind = "ParseError", !.emsg = msg,
               !.eline = loc.line, !.ecol = loc.column]

\* this.error(msg) without a location: the current line and column
error(st, msg) == throwError(st, msg, Loc(st))

\* expect(str, msg, loc)
expect(st, str, msg, loc) ==
    IF ~isExpect(str, st.index) THEN throwError(st, msg, loc)
    ELSE updateIndex(st, Len(str))

\* expect(str)
expectStr(st, str) == expect(st, str, "Expect string", Loc(st))

RECURSIVE skipWhitespace(_)
skipWhitespace(st) ==
    IF st.index < length /\ isWhiteSpace(char(st.index))
    THEN skipWhitespace(updateIndex(
             IF char(st.index) = "\n" THEN updateLine(st) ELSE st, 1))
    ELSE st

\* the loop of a // comment: up to the line break, which is left
RECURSIVE skipLineComment(_)
skipLineComment(st) ==
    IF st.index < length /\ char(st.index) # "\n"
    THEN skipLineComment(updateIndex(st, 1))
    ELSE st

\* the loop of a /* comment: up to and over the closing */
RECURSIVE skipBlockComment(_)
skipBlockComment(st) ==
    IF st.index >= length THEN st
    ELSE IF isExpect(<<"*", "/">>, st.index) THEN updateIndex(st, 2)
    ELSE skipBlockComment(updateIndex(
             IF char(st.index) = "\n" THEN updateLine(st) ELSE st, 1))

RECURSIVE skipJSComment(_)
skipJSComment(st) ==
    IF char(st.index) = "/" /\ char(st.index + 1) = "/"
    THEN skipJSComment(skipLineComment(updateIndex(st, 2)))
    ELSE IF char(st.index) = "/" /\ char(st.index + 1) = "*"
    THEN skipJSComment(skipBlockComment(updateIndex(st, 2)))
    ELSE st

RECURSIVE skipWhitespaceAndJSComment(_)
skipWhitespaceAndJSComment(st) ==
    Bind(skipJSComment(skipWhitespace(st)), LAMBDA st1 :
        IF st1.index # st.index THEN skipWhitespaceAndJSComment(st1) ELSE st1)

\* tagNameRegexp = /^<\w+:?\s*[\{\w\/>]/ tested on the source from index on
RECURSIVE wordEnd(_)
wordEnd(i) == IF isWord(char(i)) THEN wordEnd(i + 1) ELSE i

RECURSIVE spaceEnd(_)
spaceEnd(i) == IF isWhiteSpace(char(i)) THEN spaceEnd(i + 1) ELSE i

tagNameRegexp(index) ==
    /\ char(index) = "<"
    /\ isWord(char(index + 1))
    /\ LET w == wordEnd(index + 1)
           c == IF char(w) = ":" THEN w + 1 ELSE w
           k == char(spaceEnd(c))
       IN  \/ w - (index + 1) >= 2
           \/ k \in {"{", "/", ">"} \/ isWord(k)

isTagStart(index) ==
    /\ char(index) = "<"
    /\ (isExpect(<<"<", "!", "-", "-">>, index) \/ tagNameRegexp(index))

isJSImport(index) == isExpect(<<"i", "m", "p", "o", "r", "t", " ">>, index)

(***************************************************************************)
(* vdt/compiler/parser.ts: strings, imports and the helpers of scanJS      *)
(***************************************************************************)
\* utils/helpers.ts trimRight: the source without its trailing white space
RECURSIVE trimRight(_)
trimRight(str) ==
    IF Len(str) > 0 /\ isWhiteSpace(str[Len(str)])
    THEN trimRight(SubSeq(str, 1, Len(str) - 1))
    ELSE str

\* one turn of the while loop of scanString over s: the cursor, the value and
\* whether the quote was closed
scanStringStep(s, quote) ==
    IF char(s.st.index) = quote
    THEN [s EXCEPT !.st = updateIndex(IF char(@.index) = "\n" THEN updateLine(@) ELSE @, 1),
                   !.closed = TRUE]
    ELSE IF char(s.st.index) = "\\"
    THEN [s EXCEPT !.st = updateIndex(@, 2),
                   !.str = IF char(s.st.index + 1) = "" THEN @
                           ELSE Append(@, char(s.st.index + 1))]
    ELSE [s EXCEPT !.st = updateIndex(IF char(@.index) = "\n" THEN updateLine(@) ELSE @, 1),
                   !.str = Append(@, char(s.st.index))]

\* the while loop of scanString
RECURSIVE scanStringLoop(_, _)
scanStringLoop(s, quote) ==
    IF s.closed \/ s.st.index >= length THEN s
    ELSE scanStringLoop(scanStringStep(s, quote), quote)

scanString(st) ==
    CHOOSE res \in {[st |-> IF r.closed THEN r.st
                            ELSE throwError(r.st, "Unclosed quote", Loc(st)),
                     node |-> [type |-> "JSXString", value |-> r.str,
                               loc |-> Loc(st)]] :
                    r \in {scanStringLoop([st |-> updateIndex(st, 1), str |-> <<>>,
                                           closed |-> FALSE], char(st.index))}} : TRUE

\* the do-while of scanJSImport after the module string
RECURSIVE scanJSImportTail(_)
scanJSImportTail(st) ==
    Bind(skipWhitespaceAndJSComment(st), LAMBDA st1 :
        IF char(st1.index) = ";" THEN scanJSImportTail(updateIndex(st1, 1))
        ELSE IF st1.index # st.index THEN scanJSImportTail(st1)
        ELSE st1)

\* the while loop of scanJSImport
RECURSIVE scanJSImportLoop(_)
scanJSImportLoop(st) ==
    IF st.index >= length THEN st
    ELSE IF char(st.index) \in {"'", "\""}
    THEN Bind(scanString(st), LAMBDA r :
             IF r.st.ok THEN scanJSImportTail(r.st) ELSE r.st)
    ELSE scanJSImportLoop(updateIndex(st, 1))

scanJSImport(st) ==
    Bind(scanJSImportLoop(updateIndex(st, 7)), LAMBDA st1 :
        [st |-> st1,
         node |-> [type |-> "JSHoist", value |-> getValue(st.index, st1.index),
                   loc |-> Loc(st)]])

\* getLastCharCode: the first loop, back over spaces and tabs
RECURSIVE backOverSpaces(_)
backOverSpaces(start) ==
    IF start >= 0 /\ isWhiteSpaceExceptLinebreak(char(start))
    THEN backOverSpaces(start - 1)
    ELSE start

\* getLastCharCode: back to the opening of a block comment
RECURSIVE backToCommentOpen(_)
backToCommentOpen(start) ==
    IF start < 0 THEN start
    ELSE IF char(start) = "*" /\ char(start - 1) = "/" THEN start - 2
    ELSE backToCommentOpen(start - 1)

\* getLastCharCode: back over one block comment that ends at start
backOverComment(start) ==
    IF start >= 0 /\ char(start) = "/" /\ char(start - 1) = "*"
    THEN backToCommentOpen(start - 2)
    ELSE start

RECURSIVE lastCharIndex(_)
lastCharIndex(start) ==
    Bind(backOverComment(backOverSpaces(start)), LAMBDA s1 :
        IF s1 # start THEN lastCharIndex(s1) ELSE s1)

\* the character whose code getLastCharCode returns; "" stands for NaN
getLastCharCode(index) == char(lastCharIndex(index - 1))

\* the condition of scanJS under which a / opens a regular expression
isRegExpStart(index) ==
    /\ char(index) = "/"
    /\ char(index + 1) \notin {"", "*", "/"}
    /\ \/ index = 0
       \/ /\ char(index - 1) \notin {"", "<"}
          /\ Bind(getLastCharCode(index), LAMBDA tmp :
                 tmp # "" /\ ~isJSIdentifierPart(tmp) /\ tmp # ")")

\* the do-while of getFirstSpaceColumn, which walks back from start to the
\* line break before it or to the start of the source: the value of _start
\* when it breaks.  _start is set at a space when hasSet is false and hasSet is
\* cleared by any other character, so the walk leaves _start at the upper end
\* of the run of spaces that lies right after the break, and at the break
\* itself when no space follows it.
firstSpaceStart(start) ==
    IF start <= 0 THEN start
    ELSE LET break == CHOOSE k \in 0..start :
                          /\ k = 0 \/ char(k) = "\n"
                          /\ \A m \in (k + 1)..start : char(m) # "\n"
             spaces == {k \in (break + 1)..start :
                           \A m \in (break + 1)..k : char(m) = " "}
         IN  IF spaces = {} THEN break
             ELSE CHOOSE k \in spaces : \A m \in spaces : m <= k

getFirstSpaceColumn(st) ==
    st.column - (st.index - firstSpaceStart(st.index - 1))

\* the inner loop of trimRightForValue: the index of the last character of
\* code that is not white space, 0 if there is none
RECURSIVE lastNonSpace(_, _)
lastNonSpace(code, j) ==
    IF j >= 1 /\ isWhiteSpace(code[j]) THEN lastNonSpace(code, j - 1) ELSE j

RECURSIVE trimRightForValue(_)
trimRightForValue(value) ==
    IF Len(value) = 0 THEN value
    ELSE Bind(lastNonSpace(value[Len(value)], Len(value[Len(value)])), LAMBDA j :
             IF j = 0 THEN trimRightForValue(SubSeq(value, 1, Len(value) - 1))
             ELSE [value EXCEPT ![Len(value)] = SubSeq(@, 1, j)])

(***************************************************************************)
(* vdt/compiler/parser.ts: script fragments                                *)
(***************************************************************************)
\* one turn of the while loop of scanJS over its locals j, with the cursor st0
\* that skipJSComment leaves; j.done when it breaks
scanJSTurn(j, st0, isRoot, spaces) ==
    IF char(st0.index) \in {"'", "\"", Backtick} \/ isRegExpStart(st0.index)
    THEN CHOOSE res \in {[j EXCEPT !.st = r.st, !.done = ~r.st.ok] :
                         r \in {scanString(st0)}} : TRUE
    ELSE IF isTagStart(st0.index) THEN [j EXCEPT !.st = st0, !.done = TRUE]
    ELSE IF isRoot /\ isJSImport(st0.index) THEN [j EXCEPT !.st = st0, !.done = TRUE]
    ELSE IF char(st0.index) = "\n"
    THEN [j EXCEPT !.value = Append(@, getValue(j.start, st0.index)),
                   !.start = st0.index + 1,
                   !.spacesRemain = spaces,
                   !.newLine = TRUE,
                   !.leadSpaces = 0,
                   !.st = updateIndex(updateLine(st0), 1)]
    ELSE IF j.newLine /\ char(st0.index) = " "
    THEN IF j.spacesRemain # 0
         THEN [j EXCEPT !.spacesRemain = @ - 1, !.start = @ + 1,
                        !.st = updateIndex(st0, 1)]
         ELSE [j EXCEPT !.leadSpaces = @ + 1, !.st = updateIndex(st0, 1)]
    ELSE IF char(st0.index) = "{"
    THEN [j EXCEPT !.braces = @ + 1, !.newLine = FALSE, !.st = updateIndex(st0, 1)]
    ELSE IF j.braces > 0 /\ char(st0.index) = "}"
    THEN [j EXCEPT !.braces = @ - 1, !.newLine = FALSE, !.st = updateIndex(st0, 1)]
    ELSE IF isExpect(delimiters[2], st0.index)
    THEN [j EXCEPT !.braces = @ - 1, !.shouldTrimRight = TRUE, !.st = st0,
                   !.done = TRUE]
    ELSE [j EXCEPT !.newLine = FALSE, !.st = updateIndex(st0, 1)]

scanJSStep(j, isRoot, spaces) ==
    CHOOSE res \in {scanJSTurn(j, st0, isRoot, spaces) :
                    st0 \in {skipJSComment(j.st)}} : TRUE

\* the while loop of scanJS
RECURSIVE scanJSLoop(_, _, _)
scanJSLoop(j, isRoot, spaces) ==
    IF j.done \/ j.st.index >= length THEN j
    ELSE scanJSLoop(scanJSStep(j, isRoot, spaces), isRoot, spaces)

\* what scanJS returns from the locals its loop leaves
scanJSNode(st, j, value) ==
    [st |-> j.st,
     braces |-> j.braces,
     node |-> [type |-> "JS",
               value |-> IF j.shouldTrimRight THEN trimRightForValue(value)
                         ELSE value,
               spaces |-> j.leadSpaces,
               loc |-> Loc(st)]]

scanJS(st, count, isRoot, spaces) ==
    CHOOSE res \in {scanJSNode(st, j, Append(j.value, getValue(j.start, j.st.index))) :
                    j \in {scanJSLoop([st |-> st, braces |-> count, value |-> <<>>,
                                       start |-> st.index, spacesRemain |-> spaces,
                                       newLine |-> TRUE, leadSpaces |-> 0,
                                       shouldTrimRight |-> FALSE, done |-> FALSE],
                                      isRoot, spaces)}} : TRUE

(***************************************************************************)
(* vdt/compiler/parser.ts: markup                                          *)
(***************************************************************************)
\* utils/types.ts Directives, the keys of utils/helpers.ts directivesMap
Directives_If == <<"v", "-", "i", "f">>
Directives_ElseIf == <<"v", "-", "e", "l", "s", "e", "-", "i", "f">>
Directives_Else == <<"v", "-", "e", "l", "s", "e">>
Directives_Raw == <<"v", "-", "r", "a", "w">>
directivesMap == {Directives_If, Directives_ElseIf, Directives_Else, Directives_Raw,
                  <<"v", "-", "f", "o", "r">>, <<"v", "-", "f", "o", "r", "-", "v", "a", "l", "u", "e">>, <<"v", "-", "f", "o", "r", "-", "k", "e", "y">>, <<"v", "-", "m", "o", "d", "e", "l">>}

\* utils/helpers.ts: the tags without children and the tags with text content
selfClosingTags == {<<"a", "r", "e", "a">>, <<"b", "a", "s", "e">>, <<"b", "r">>, <<"c", "o", "l">>, <<"e", "m", "b", "e", "d">>, <<"h", "r">>, <<"i", "m", "g">>, <<"i", "n", "p", "u", "t">>,
                    <<"l", "i", "n", "k">>, <<"m", "e", "t", "a">>, <<"p", "a", "r", "a", "m">>, <<"s", "o", "u", "r", "c", "e">>, <<"t", "r", "a", "c", "k">>, <<"w", "b", "r">>}
textTags == {<<"s", "t", "y", "l", "e">>, <<"s", "c", "r", "i", "p", "t">>, <<"t", "e", "x", "t", "a", "r", "e", "a">>}

\* utils/helpers.ts isElementNode
isElementNode(node) ==
    node.type \in {"JSXCommonElement", "JSXComponent", "JSXVdt", "JSXBlock"}

\* a runtime TypeError, and a loop that never ends
throwTypeError(st, msg) ==
    IF ~st.ok THEN st
    ELSE [st EXCEPT !.ok = FALSE, !.ekind = "TypeError", !.emsg = msg,
                    !.eline = 0, !.ecol = 0]
neverReturns(st) ==
    IF ~st.ok THEN st
    ELSE [st EXCEPT !.ok = FALSE, !.ekind = "Hang", !.emsg = "",
                    !.eline = 0, !.ecol = 0]

\* the loop over the characters of a tag or attribute name
RECURSIVE skipJSXIdentifier(_)
skipJSXIdentifier(st) ==
    IF st.index < length /\ isJSXIdentifierPart(char(st.index))
    THEN skipJSXIdentifier(updateIndex(st, 1))
    ELSE st

\* the while loop of parseJSXComment
RECURSIVE parseJSXCommentLoop(_)
parseJSXCommentLoop(st) ==
    IF st.index >= length \/ isExpect(<<"-", "-", ">">>, st.index) THEN st
    ELSE parseJSXCommentLoop(updateIndex(
             IF char(st.index) = "\n" THEN updateLine(st) ELSE st, 1))

parseJSXComment(st) ==
    Bind(expectStr(st, <<"!", "-", "-">>), LAMBDA st1 :
    Bind(parseJSXCommentLoop(st1), LAMBDA st2 :
        [st |-> expectStr(st2, <<"-", "-", ">">>),
         node |-> [type |-> "JSXComment", value |-> getValue(st1.index, st2.index),
                   loc |-> Loc(st1)]]))

\* scanJSXText with its three lists of stops: [endTag] ("raw"),
\* [endTag, delimiters[0]] ("text"), [endTag or a tag start, delimiters[0]]
\* ("child")
isStop(kind, endTag, index) ==
    \/ isExpect(endTag, index)
    \/ kind = "child" /\ isTagStart(index)
    \/ kind # "raw" /\ isExpect(delimiters[1], index)

RECURSIVE scanJSXTextLoop(_, _, _)
scanJSXTextLoop(st, kind, endTag) ==
    IF st.index >= length THEN st
    ELSE IF isWhiteSpace(char(st.index))
    THEN scanJSXTextLoop(updateIndex(
             IF char(st.index) = "\n" THEN updateLine(st) ELSE st, 1), kind, endTag)
    ELSE IF isStop(kind, endTag, st.index) THEN st
    ELSE scanJSXTextLoop(updateIndex(st, 1), kind, endTag)

scanJSXText(st, kind, endTag) ==
    Bind(scanJSXTextLoop(st, kind, endTag), LAMBDA st1 :
        [st |-> st1,
         node |-> [type |-> "JSXText", value |-> getValue(st.index, st1.index),
                   loc |-> Loc(st)]])

skipWhitespaceBetweenTags(st, endTag, skipBeforeDelimiter) ==
    Bind(spaceEnd(st.index), LAMBDA start :
        IF /\ start < length
           /\ \/ isExpect(endTag, start)
              \/ isTagStart(start)
              \/ skipBeforeDelimiter /\ isExpect(delimiters[1], start)
        THEN skipWhitespace(st)
        ELSE st)

parseJSXClosingTag(st, loc) ==
    Bind(expect(st, <<"<", "/">>, "Unclosed tag", loc), LAMBDA st1 :
        IF ~st1.ok THEN st1
        ELSE expectStr(skipWhitespace(skipJSXIdentifier(st1)), <<">">>))

\* process.env.NODE_ENV
NODE_ENV == IF production THEN "production" ELSE "development"

\* a development check named check is executed
executed(st, check) == [st EXCEPT !.validated = @ \cup {check}]

parseJSXAttributeName(st) ==
    IF NODE_ENV # "production"
    THEN IF ~isJSXIdentifierPart(char(st.index))
         THEN [st |-> error(executed(st, "isJSXIdentifierPart"),
                            "Unexpected identifier"),
               name |-> <<>>]
         ELSE Bind(skipJSXIdentifier(executed(st, "isJSXIdentifierPart")),
                   LAMBDA st1 :
                  [st |-> st1, name |-> getValue(st.index, st1.index)])
    ELSE Bind(skipJSXIdentifier(st), LAMBDA st1 :
             [st |-> st1, name |-> getValue(st.index, st1.index)])

\* the guarded calls of validateDirectiveValue and validateAttributeForBlock
\* in the loop of parseJSXAttribute.  utils/validate.ts is not read here: the
\* validators are called and return.
validateAttribute(st, name, type) ==
    IF NODE_ENV # "produdction"
    THEN IF name \in directivesMap
         THEN IF type = "JSXBlock"
              THEN executed(executed(st, "validateDirectiveValue"),
                            "validateAttributeForBlock")
              ELSE executed(st, "validateDirectiveValue")
         ELSE IF type = "JSXBlock" THEN executed(st, "validateAttributeForBlock")
         ELSE st
    ELSE st

\* the link made at the element itself, whatever directive directiveIf is
setNextOfHead(el, path, child) ==
    [el EXCEPT !.directives[path[1]].next = <<child>>]

\* directiveIf.next = child, for the directive reached from the element el
\* along the directives named by path
RECURSIVE setNext(_, _, _)
setNext(el, path, child) ==
    IF Len(path) = 1
    THEN [el EXCEPT !.directives[path[1]].next = <<child>>]
    ELSE [el EXCEPT !.directives[path[1]].next = <<setNext(@[1], Tail(path), child)>>]

(***************************************************************************)
(* vdt/compiler/parser.ts: the recursive descent.  Every routine takes the *)
(* cursor and returns it with what the routine returns; once an error is   *)
(* thrown (st.ok is FALSE) the callers return at once.                     *)
(***************************************************************************)
RECURSIVE parseLoop(_, _, _, _)
RECURSIVE advance(_, _, _, _)
RECURSIVE scanJSX(_)
RECURSIVE parseJSXElement(_)
RECURSIVE parseJSXAttributeLoop(_)
RECURSIVE parseJSXAttributeValue(_)
RECURSIVE parseJSXChildren(_, _, _, _, _, _)
RECURSIVE parseJSXChildrenValue(_, _, _, _, _, _)
RECURSIVE parseJSXChildrenRaw(_, _)
RECURSIVE parseJSXChildrenLoop(_, _, _)
RECURSIVE parseJSXChild(_, _, _)
RECURSIVE parseJSXExpression(_)

\* what a routine returns when it throws
Thrown(st) == [st |-> st, node |-> [type |-> "thrown"]]

\* the while loop of parse(false, spaces)
parseLoop(st, ns, count, spaces) ==
    IF ~st.ok \/ st.index >= length \/ count < 0 THEN [st |-> st, nodes |-> ns]
    ELSE Bind(advance(st, count, FALSE, spaces), LAMBDA r :
             parseLoop(r.st, Append(ns, r.node), r.braces, spaces))

\* parse(false, spaces)
parse(st, spaces) == parseLoop(st, <<>>, 0, spaces)

advance(st, count, isRoot, spaces) ==
    IF isRoot /\ isJSImport(st.index)
    THEN Bind(scanJSImport(st), LAMBDA r :
             [st |-> r.st, node |-> r.node, braces |-> count])
    ELSE IF char(st.index) # "<" THEN scanJS(st, count, isRoot, spaces)
    ELSE Bind(scanJSX(st), LAMBDA r :
             [st |-> r.st, node |-> r.node, braces |-> count])

scanJSX(st) ==
    Bind(expectStr(st, <<"<">>), LAMBDA st1 :
        IF ~st1.ok THEN Thrown(st1)
        ELSE IF isExpect(<<"!", "-", "-">>, st1.index) THEN parseJSXComment(st1)
        ELSE parseJSXElement(st1))

\* parseJSXExpression up to the script: the cursor, the column of the first
\* space of the line and whether = follows the delimiter
parseJSXExpressionOpen(st) ==
    Bind(expectStr(st, delimiters[1]), LAMBDA st1 :
    IF ~st1.ok THEN [st |-> st1, spaceColumn |-> 0, unescape |-> FALSE] ELSE
    Bind(skipWhitespaceAndJSComment(st1), LAMBDA st2 :
    Bind(isExpect(<<"=">>, st2.index), LAMBDA unescape :
        [st |-> IF unescape THEN skipWhitespace(updateIndex(st2, 1)) ELSE st2,
         spaceColumn |-> getFirstSpaceColumn(st2),
         unescape |-> unescape])))

parseJSXExpression(st) ==
    Bind(parseJSXExpressionOpen(st), LAMBDA o :
    IF ~o.st.ok THEN Thrown(o.st) ELSE
    Bind(IF isExpect(delimiters[2], o.st.index) THEN [st |-> o.st, nodes |-> <<>>]
         ELSE parse(o.st, o.spaceColumn), LAMBDA p :
        IF ~p.st.ok THEN Thrown(p.st)
        ELSE [st |-> expect(p.st, delimiters[2], "Unclosed delimiter", Loc(st)),
              node |-> [type |-> IF o.unescape THEN "JSXUnescapeText"
                                 ELSE "JSXExpression",
                        value |-> p.nodes,
                        loc |-> Loc(st)]]))

parseJSXAttributeValue(st) ==
    IF isExpect(delimiters[1], st.index) THEN parseJSXExpression(st)
    ELSE IF char(st.index) \notin {"'", "\"", Backtick}
    THEN Thrown(error(st, "String value of attribute must start with a quote."))
    ELSE scanString(st)

\* the directives of parseJSXAttribute after an attribute was read
directivesAfter(directives, name, attr) ==
    IF name \in {Directives_If, Directives_ElseIf, Directives_Else}
    THEN (name :> [type |-> "JSXDirectiveIf", name |-> name, value |-> attr.value,
                   next |-> <<>>, loc |-> attr.loc])
         @@ directives
    ELSE IF name \in directivesMap
    THEN (name :> attr) @@ directives
    ELSE directives

attributesAfterUnlessConditional(attributes, name, attr) ==
    IF name \in {Directives_If, Directives_ElseIf, Directives_Else} THEN attributes
    ELSE Append(attributes, attr)

\* the attributes of parseJSXAttribute after an attribute was read
attributesAfter(attributes, name, attr) ==
    IF name \in directivesMap THEN attributes ELSE Append(attributes, attr)

\* the while loop of parseJSXAttribute over its locals
parseJSXAttributeLoop(a) ==
    IF ~a.st.ok \/ a.st.index >= length THEN a
    ELSE
    Bind(skipWhitespace(a.st), LAMBDA st1 :
        IF char(st1.index) \in {"/", ">"} THEN [a EXCEPT !.st = st1]
        ELSE IF isExpect(delimiters[1], st1.index)
        THEN Bind(parseJSXExpression(st1), LAMBDA r :
                 IF ~r.st.ok THEN [a EXCEPT !.st = r.st]
                 ELSE parseJSXAttributeLoop(
                          [a EXCEPT !.st = r.st,
                                    !.attributes = IF Len(r.node.value) > 0
                                                   THEN Append(@, r.node) ELSE @]))
        ELSE
        Bind(parseJSXAttributeName(st1), LAMBDA n :
        IF ~n.st.ok THEN [a EXCEPT !.st = n.st] ELSE
        Bind(IF char(n.st.index) = "="
             THEN parseJSXAttributeValue(updateIndex(n.st, 1))
             ELSE [st |-> n.st, node |-> [type |-> "JSXNone", loc |-> Loc(n.st)]],
             LAMBDA v :
        IF ~v.st.ok THEN [a EXCEPT !.st = v.st]
        ELSE IF v.st.index = a.st.index
        THEN \* nothing was read and nothing ends the loop
             [a EXCEPT !.st = neverReturns(v.st)]
        ELSE
        Bind([type |-> "JSXAttribute", name |-> n.name, value |-> v.node,
              loc |-> Loc(st1)], LAMBDA attr :
            parseJSXAttributeLoop(
                [st |-> validateAttribute(v.st, n.name, a.type),
                 type |-> a.type,
                 keyed |-> a.keyed \/ n.name = <<"k", "e", "y">>,
                 hasVRaw |-> a.hasVRaw \/ n.name = Directives_Raw,
                 directives |-> directivesAfter(a.directives, n.name, attr),
                 attributes |-> attributesAfter(a.attributes, n.name, attr)])))))

parseJSXAttribute(st, tag, type) ==
    parseJSXAttributeLoop([st |-> st, type |-> type, attributes |-> <<>>,
                           directives |-> <<>>, keyed |-> FALSE,
                           hasVRaw |-> FALSE])

\* parseJSXElement up to the attributes: the type and the name of the tag
parseJSXElementName(st) ==
    Bind(char(st.index), LAMBDA flag :
    Bind(flag \notin Upper /\ char(st.index + 1) = ":", LAMBDA isDirective :
    Bind(IF ~isDirective THEN st
         ELSE IF flag \in {"t", "b"} THEN updateIndex(st, 2)
         ELSE error(st, "Unknown directive"), LAMBDA st1 :
    Bind(IF st1.ok THEN skipJSXIdentifier(st1) ELSE st1, LAMBDA st2 :
        [st |-> st2,
         type |-> IF flag \in Upper THEN "JSXComponent"
                  ELSE IF ~isDirective THEN "JSXCommonElement"
                  ELSE IF flag = "t" THEN "JSXVdt"
                  ELSE "JSXBlock",
         value |-> getValue(IF isDirective THEN st.index + 2 ELSE st.index,
                            st2.index)]))))

parseJSXElement(st) ==
    Bind(parseJSXElementName(st), LAMBDA t :
    IF ~t.st.ok THEN Thrown(t.st) ELSE
    Bind(parseJSXAttribute(t.st, t.value, t.type), LAMBDA a :
    IF ~a.st.ok THEN Thrown(a.st) ELSE
    Bind(parseJSXChildren(a.st, t.value, t.type, a.attributes, a.hasVRaw, Loc(st)),
         LAMBDA c :
    IF ~c.st.ok THEN Thrown(c.st)
    ELSE [st |-> IF NODE_ENV # "production" THEN executed(c.st, "validateModel")
                 ELSE c.st,
          node |-> [type |-> t.type, value |-> t.value, attributes |-> c.attributes,
                    directives |-> a.directives, children |-> c.children,
                    keyed |-> a.keyed, loc |-> Loc(st)]])))

parseJSXChildren(st, tag, type, attributes, hasVRaw, loc) ==
    IF type = "JSXCommonElement" /\ tag \in selfClosingTags
    THEN [st |-> expectStr(IF char(st.index) = "/" THEN updateIndex(st, 1) ELSE st,
                           <<">">>),
          children |-> <<>>, attributes |-> attributes]
    ELSE IF char(st.index) = "/"
    THEN [st |-> expectStr(updateIndex(st, 1), <<">">>),
          children |-> <<>>, attributes |-> attributes]
    ELSE
    Bind(expectStr(st, <<">">>), LAMBDA st1 :
    IF ~st1.ok THEN [st |-> st1, children |-> <<>>, attributes |-> attributes] ELSE
    Bind(parseJSXChildrenValue(st1, tag, type, hasVRaw, tag \in textTags, loc),
         LAMBDA r :
        IF tag \in textTags
        THEN [st |-> r.st,
              children |-> <<>>,
              attributes |->
                  IF Len(r.children) = 0 THEN attributes
                  ELSE Append(attributes,
                           [type |-> "JSXAttribute",
                            name |-> IF tag = <<"t", "e", "x", "t", "a", "r", "e", "a">> THEN <<"v", "a", "l", "u", "e">>
                                     ELSE <<"i", "n", "n", "e", "r", "H", "T", "M", "L">>,
                            value |-> [type |-> "JSXStrings", value |-> r.children,
                                       loc |-> Loc(st1)],
                            loc |-> loc])]
        ELSE [st |-> r.st, children |-> r.children, attributes |-> attributes]))

\* the loop of parseJSXChildrenValue under v-raw
parseJSXChildrenRaw(c, endTag) ==
    IF c.st.index >= length \/ isExpect(endTag, c.st.index) THEN c
    ELSE Bind(scanJSXText(c.st, "raw", endTag), LAMBDA r :
             parseJSXChildrenRaw([c EXCEPT !.st = r.st,
                                           !.children = Append(@, r.node)], endTag))

\* one turn of the loop of parseJSXChildrenValue over its locals.  directiveIf
\* is a reference to a directive of an element already read: c.ifPos is the
\* place in children of the element that heads the chain (0 when directiveIf
\* is null) and c.ifPath names the directives that lead from it to directiveIf.
parseJSXChildrenStep(c, endTag, isTextTag) ==
    Bind(parseJSXChild(c.st, endTag, isTextTag), LAMBDA r :
        IF ~r.st.ok THEN [c EXCEPT !.st = r.st]
        ELSE IF ~isElementNode(r.node)
        THEN [c EXCEPT !.st = r.st, !.children = Append(@, r.node)]
        ELSE IF Directives_If \in DOMAIN r.node.directives
        THEN [st |-> r.st,
              children |-> Append(c.children, r.node),
              ifPos |-> Len(c.children) + 1,
              ifPath |-> <<Directives_If>>]
        ELSE IF \/ Directives_ElseIf \in DOMAIN r.node.directives
                \/ Directives_Else \in DOMAIN r.node.directives
        THEN IF c.ifPos = 0
             THEN IF ~production
                  THEN [c EXCEPT !.st = throwError(r.st,
                            "must be lead with 'v-if' or 'v-else-if'", r.node.loc)]
                  ELSE [c EXCEPT !.st = throwTypeError(r.st,
                            "Cannot set properties of null (setting 'next')")]
             ELSE IF Directives_ElseIf \in DOMAIN r.node.directives
             THEN [st |-> r.st,
                   children |-> [c.children EXCEPT ![c.ifPos] =
                                    setNext(@, c.ifPath, r.node)],
                   ifPos |-> c.ifPos,
                   ifPath |-> Append(c.ifPath, Directives_ElseIf)]
             ELSE [st |-> r.st,
                   children |-> [c.children EXCEPT ![c.ifPos] =
                                    setNext(@, c.ifPath, r.node)],
                   ifPos |-> 0,
                   ifPath |-> <<>>]
        ELSE [c EXCEPT !.st = r.st, !.children = Append(@, r.node)])

\* the loop of parseJSXChildrenValue
parseJSXChildrenLoop(c, endTag, isTextTag) ==
    IF ~c.st.ok \/ c.st.index >= length \/ isExpect(endTag, c.st.index) THEN c
    ELSE parseJSXChildrenLoop(parseJSXChildrenStep(c, endTag, isTextTag),
                              endTag, isTextTag)

\* an end tag without the name of the element: the opening of any closing tag
endTagOfAnyName(tag, type) == <<"<", "/">>

\* the local endTag of parseJSXChildrenValue
endTagOf(tag, type) ==
    (IF type = "JSXBlock" THEN <<"<", "/", "b", ":">>
     ELSE IF type = "JSXVdt" THEN <<"<", "/", "t", ":">>
     ELSE <<"<", "/">>) \o tag \o <<">">>

parseJSXChildrenValue(st, tag, type, hasVRaw, isTextTag, loc) ==
    Bind(IF hasVRaw
         THEN parseJSXChildrenRaw([st |-> st, children |-> <<>>],
                                  endTagOf(tag, type))
         ELSE parseJSXChildrenLoop(
                  [st |-> skipWhitespaceBetweenTags(st, endTagOf(tag, type), TRUE),
                   children |-> <<>>, ifPos |-> 0, ifPath |-> <<>>],
                  endTagOf(tag, type), isTextTag), LAMBDA c :
        [st |-> IF c.st.ok THEN parseJSXClosingTag(c.st, loc) ELSE c.st,
         children |-> c.children])

parseJSXChild(st, endTag, isTextTag) ==
    IF isExpect(delimiters[1], st.index)
    THEN Bind(parseJSXExpression(st), LAMBDA r :
             IF ~r.st.ok THEN r
             ELSE [st |-> skipWhitespaceBetweenTags(r.st, endTag, FALSE),
                   node |-> r.node])
    ELSE IF isTextTag THEN scanJSXText(st, "text", endTag)
    ELSE IF isTagStart(st.index)
    THEN Bind(scanJSX(st), LAMBDA r :
             IF ~r.st.ok THEN r
             ELSE [st |-> skipWhitespaceBetweenTags(r.st, endTag, TRUE),
                   node |-> r.node])
    ELSE scanJSXText(st, "child", endTag)

(***************************************************************************)
(* The sources handed to the parser                                        *)
(***************************************************************************)
\* the pieces a script is put together from: code, a line break, quotes, the
\* opening and the closing of a template literal nested in ${ }, a tag,
\* comments, an import and a line continuation
ScriptPieces ==
    {<<"a">>, <<"\n">>, <<"'">>, <<Backtick>>, <<Backtick, "$", "{", Backtick>>, <<Backtick, "}", Backtick>>, <<"<", "b", "/", ">">>, <<"/", "/">>, <<"/", "*">>, <<"*", "/">>, <<"i", "m", "p", "o", "r", "t", " ">>,
     <<"\\", "\n">>}

\* the children an element is put together from, and the kind of each
ChildKinds ==
    <<[piece |-> <<"<", "i", " ", "v", "-", "i", "f", "=", "{", "x", "}", "/", ">">>, kind |-> "if"],
      [piece |-> <<"<", "i", " ", "v", "-", "e", "l", "s", "e", "-", "i", "f", "=", "{", "x", "}", "/", ">">>, kind |-> "else-if"],
      [piece |-> <<"<", "i", " ", "v", "-", "e", "l", "s", "e", "/", ">">>, kind |-> "else"],
      [piece |-> <<"<", "i", "/", ">">>, kind |-> "plain"],
      [piece |-> <<"t">>, kind |-> "text"],
      [piece |-> <<"{", "x", "}">>, kind |-> "expression"],
      [piece |-> <<"<", "!", "-", "-", "-", "-", ">">>, kind |-> "comment"]>>
ChildPieces == {ChildKinds[k].piece : k \in 1..Len(ChildKinds)}

\* the concatenations of at most n pieces
RECURSIVE Concats(_, _)
Concats(pieces, n) ==
    IF n = 0 THEN {<<>>}
    ELSE LET shorter == Concats(pieces, n - 1)
         IN  shorter \cup {s \o p : s \in shorter, p \in pieces}

\* an import statement with a line break before its module string
BrokenImport == <<"i", "m", "p", "o", "r", "t", " ", "\n", "'", "a", "'">>

\* the pieces after <q> of a source that is left open: the delimiters, a
\* script or a text, and a line break
OpenPieces == {<<"{">>, <<"}">>, <<"x">>, <<"\n">>}

\* an element <q> that is never closed, at the start of the source or after
\* an import statement
OpenSources ==
    {lead \o <<"<", "q", ">">> \o tail :
         lead \in {<<>>, BrokenImport}, tail \in Concats(OpenPieces, MaxTail)}

\* closing tags written after the children of <q>: its own, one of another
\* name, one of a longer name and its own with a space before >
Closings ==
    {<<"<", "/", "q", ">">>, <<"<", "/", "x", ">">>, <<"<", "/", "q", "x", ">">>,
     <<"<", "/", "q", " ", ">">>}

\* an element <q>, its children and a closing tag
ClosedSources ==
    {<<"<", "q", ">">> \o kids \o closing :
         kids \in Concats(ChildPieces, MaxClosedChildren), closing \in Closings}

\* the attributes an element is put together from, and the name of each;
\* a dynamic attribute has none
AttrKinds ==
    <<[piece |-> <<" ", "k", "e", "y", "=", "'", "a", "'">>, name |-> <<"k", "e", "y">>],
      [piece |-> <<" ", "k", "e", "y", "s", "=", "'", "a", "'">>, name |-> <<"k", "e", "y", "s">>],
      [piece |-> <<" ", "v", "-", "i", "f", "=", "{", "x", "}">>, name |-> Directives_If],
      [piece |-> <<" ", "v", "-", "e", "l", "s", "e">>, name |-> Directives_Else],
      [piece |-> <<" ", "v", "-", "r", "a", "w">>, name |-> Directives_Raw],
      [piece |-> <<" ", "{", "x", "}">>, name |-> <<>>]>>
AttrPieces == {AttrKinds[k].piece : k \in 1..Len(AttrKinds)}

\* an element <i .../> and its attributes
AttrSources ==
    {<<"<", "i">> \o attrs \o <<"/", ">">> : attrs \in Concats(AttrPieces, MaxAttrs)}

\* <p>{import a}</p>: the characters of an import statement in an expression
ImportInExpression ==
    <<"<", "p", ">", "{", "i", "m", "p", "o", "r", "t", " ", "a", "}", "<", "/", "p", ">">>

\* the pieces of the script of an expression: a line break, a space, a
\* string, an identifier and a block comment
BodyPieces ==
    {<<"\n">>, <<" ">>, <<"'", "a", "'">>, <<"b">>, <<"/", "*", "*", "/">>}

\* an expression that is indented by one space, as the child of <p>; its
\* script starts on the line of the delimiter or has a line b before it
IndentedSources ==
    {<<"<", "p", ">", "\n", " ", "{">> \o first \o body \o <<"}", "<", "/", "p", ">">> :
         first \in {<<>>, <<"b", "\n">>}, body \in Concats(BodyPieces, MaxBody)}

\* what stands before a / in root-level script
SlashPieces ==
    {<<"a">>, <<")">>, <<" ">>, <<"\n">>, <<"=">>, <<"a", "<">>}

\* root-level script with one /, which the identifier b follows
SlashSources ==
    {before \o <<"/", "b">> : before \in Concats(SlashPieces, MaxBefore)}

\* <i !/>: a character that starts no attribute name where one is read
NamelessAttribute == <<"<", "i", " ", "!", "/", ">">>

\* <div v-if={a}>A</div><div v-else>B</div>
SiblingsAtRoot ==
    <<"<", "d", "i", "v", " ", "v", "-", "i", "f", "=", "{", "a", "}", ">", "A", "<", "/", "d", "i", "v", ">">>
        \o <<"<", "d", "i", "v", " ", "v", "-", "e", "l", "s", "e", ">", "B", "<", "/", "d", "i", "v", ">">>

Sources ==
    Concats(ScriptPieces, MaxPieces)
        \cup {<<"<", "p", ">">> \o kids \o <<"<", "/", "p", ">">> : kids \in Concats(ChildPieces, MaxChildren)}
        \cup OpenSources
        \cup ClosedSources
        \cup {SiblingsAtRoot}
        \cup AttrSources
        \cup {ImportInExpression}
        \cup IndentedSources
        \cup SlashSources
        \cup {NamelessAttribute}

(***************************************************************************)
(* The parser as a state machine: the constructor, then the loop of        *)
(* parse(true, 0), one call of advance at a time                           *)
(***************************************************************************)
InitP ==
    /\ uTree = << >> /\ uPhase = "idle" /\ uLog = <<>>
    /\ IdleC
    /\ IdleP
    /\ IdleK

\* new Parser(src) under an environment, up to the loop of parse(true, 0)
NewParser(src, env) ==
    /\ pstatus = "idle"
    /\ source' = trimRight(src)
    /\ production' = env
    /\ cur' = Cursor(0, 1, 1)
    /\ nodes' = <<>>
    /\ braces' = 0
    /\ pstatus' = "parsing"
    /\ ast' = <<>>
    /\ UNCHANGED <<uvars, cvars, kvars>>

\* the condition of the while loop of parse
InLoop == pstatus = "parsing" /\ cur.index < length /\ braces >= 0

\* nodes.push(advance(...)), or the exception advance throws
Push(r, count) ==
    /\ cur' = r.st
    /\ IF r.st.ok
       THEN nodes' = Append(nodes, r.node) /\ braces' = count /\ pstatus' = pstatus
       ELSE /\ UNCHANGED <<nodes, braces>>
            /\ pstatus' = IF r.st.ekind = "Hang" THEN "hang" ELSE "error"
    /\ UNCHANGED <<source, production, ast, uvars, cvars, kvars>>

\* advance: an import statement
ScanJSImport ==
    /\ InLoop
    /\ isJSImport(cur.index)
    /\ \E r \in {scanJSImport(cur)} : Push(r, braces)

\* advance: a script fragment
ScanJS ==
    /\ InLoop
    /\ ~isJSImport(cur.index)
    /\ char(cur.index) # "<"
    /\ \E r \in {scanJS(cur, braces, TRUE, 0)} : Push(r, r.braces)

\* advance: markup
ScanJSX ==
    /\ InLoop
    /\ ~isJSImport(cur.index)
    /\ char(cur.index) = "<"
    /\ \E r \in {scanJSX(cur)} : Push(r, braces)

\* the loop of parse(true, 0) ends: this.ast = nodes
Return ==
    /\ pstatus = "parsing"
    /\ ~InLoop
    /\ ast' = <<nodes>>
    /\ pstatus' = "done"
    /\ UNCHANGED <<source, production, cur, nodes, braces, uvars, cvars, kvars>>

NextP ==
    \/ pstatus = "idle" /\ \E src \in Sources, env \in BOOLEAN : NewParser(src, env)
    \/ ScanJSImport
    \/ ScanJS
    \/ ScanJSX
    \/ Return

SpecParser == InitP /\ [][NextP]_vars

(***************************************************************************)
(* Claims about the parser                                                 *)
(***************************************************************************)
\* the source is an element <p> around a list of children
IsChildList == isExpect(<<"<", "p", ">">>, 0)

\* the children written in the source from index on, in document order: the
\* kind of each and the index it starts at
RECURSIVE Siblings(_)
Siblings(index) ==
    IF \A k \in 1..Len(ChildKinds) : ~isExpect(ChildKinds[k].piece, index)
    THEN <<>>
    ELSE LET k == CHOOSE k \in 1..Len(ChildKinds) :
                      isExpect(ChildKinds[k].piece, index)
         IN  <<[kind |-> ChildKinds[k].kind, at |-> index]>>
                 \o Siblings(index + Len(ChildKinds[k].piece))

Written == Siblings(3)

ElementKindsWritten == {"if", "else-if", "else", "plain"}

\* the place of the element sibling that immediately precedes the i-th sibling,
\* text, expressions and comments ignored; 0 if there is none
PrecedingElement(sibs, i) ==
    LET before == {j \in 1..(i - 1) : sibs[j].kind \in ElementKindsWritten}
    IN  IF before = {} THEN 0 ELSE CHOOSE j \in before : \A h \in before : h <= j

\* the i-th sibling carries else-if or else and what precedes it does not carry
\* if or else-if
Misplaced(sibs, i) ==
    /\ sibs[i].kind \in {"else-if", "else"}
    /\ LET j == PrecedingElement(sibs, i)
       IN  j = 0 \/ sibs[j].kind \notin {"if", "else-if"}

\* C2: a child list in which an else-if or else element is not immediately
\* preceded (text, expressions and comments ignored) by an if or else-if
\* element is not parsed into an AST: the parse ends with a parse error.
C2_ElseMustFollowIf ==
    (/\ pstatus \in {"done", "error", "hang"}
     /\ IsChildList
     /\ \E i \in 1..Len(Written) : Misplaced(Written, i))
        => (pstatus = "error" /\ cur.ekind = "ParseError")

\* the elements among nodes
RECURSIVE Elements(_)
Elements(ns) ==
    IF ns = <<>> THEN <<>>
    ELSE (IF isElementNode(Head(ns)) THEN <<Head(ns)>> ELSE <<>>)
             \o Elements(Tail(ns))

\* the siblings of the kinds given, from the i-th on
RECURSIVE OfKinds(_, _, _)
OfKinds(sibs, kinds, i) ==
    IF i > Len(sibs) THEN <<>>
    ELSE (IF sibs[i].kind \in kinds THEN <<sibs[i]>> ELSE <<>>)
             \o OfKinds(sibs, kinds, i + 1)

\* the else-if and else siblings that follow the i-th sibling up to the next
\* element that carries neither
RECURSIVE ChainWritten(_, _)
ChainWritten(sibs, i) ==
    IF i + 1 > Len(sibs) \/ sibs[i + 1].kind \in {"if", "plain"} THEN <<>>
    ELSE (IF sibs[i + 1].kind \in {"else-if", "else"} THEN <<sibs[i + 1]>> ELSE <<>>)
             \o ChainWritten(sibs, i + 1)

\* the column recorded for an element that starts at index at of a one-line
\* source
ColumnOf(sib) == sib.at + 2

\* the elements reached by following next from the directive d
RECURSIVE ChainParsed(_)
ChainParsed(d) ==
    IF d.next = <<>> THEN <<>>
    ELSE LET el == d.next[1]
             elseIf == Directives_ElseIf \in DOMAIN el.directives
         IN  <<[kind |-> IF elseIf THEN "else-if" ELSE "else",
                column |-> el.loc.column]>>
                 \o ChainParsed(IF elseIf THEN el.directives[Directives_ElseIf]
                                ELSE el.directives[Directives_Else])

\* C3: when every else-if and else element written follows an if or else-if
\* element, the children parsed hold the if elements and the elements without
\* a conditional directive, in document order, and none with else-if or else;
\* following next from the if directive of a head visits the else-if and else
\* elements written after it, each once and in document order, and ends with
\* next = null.
C3_ChainLinkedInOrder ==
    (/\ pstatus = "done"
     /\ IsChildList
     /\ \A i \in 1..Len(Written) : ~Misplaced(Written, i))
        => LET kept == Elements(ast[1][1].children)
               heads == OfKinds(Written, {"if", "plain"}, 1)
           IN  /\ Len(kept) = Len(heads)
               /\ \A h \in 1..Len(heads) :
                      /\ kept[h].loc.column = ColumnOf(heads[h])
                      /\ Directives_ElseIf \notin DOMAIN kept[h].directives
                      /\ Directives_Else \notin DOMAIN kept[h].directives
                      /\ (heads[h].kind = "if")
                             = (Directives_If \in DOMAIN kept[h].directives)
               /\ \A i \in 1..Len(Written) :
                      Written[i].kind = "if" =>
                          \E h \in 1..Len(kept) :
                              /\ kept[h].loc.column = ColumnOf(Written[i])
                              /\ ChainParsed(kept[h].directives[Directives_If])
                                     = [c \in 1..Len(ChainWritten(Written, i)) |->
                                           [kind |-> ChainWritten(Written, i)[c].kind,
                                            column |->
                                                ColumnOf(ChainWritten(Written, i)[c])]]

\* an if, an else-if and an else element in a row have been parsed
C3_Witness ==
    /\ pstatus = "done"
    /\ IsChildList
    /\ \A i \in 1..Len(Written) : ~Misplaced(Written, i)
    /\ \E i \in 1..Len(Written) :
           /\ Written[i].kind = "if"
           /\ Len(ChainWritten(Written, i)) = 2
           /\ Len(ChainParsed(ast[1][1].children[1].directives[Directives_If])) = 2

\* The JavaScript reading of a script from index on, for the question whether
\* target lies inside a string literal, a template literal or a comment.
\* modes holds what is open, innermost last: a quote, a comment opener, or
\* "code" for the ${ } of a template literal.  Nothing is answered past the
\* first tag start met in code or past a / that opens no comment.
RECURSIVE InLiteral(_, _, _)
InLiteral(index, modes, target) ==
    LET top == IF modes = <<>> THEN "code" ELSE modes[Len(modes)]
        closed == SubSeq(modes, 1, Len(modes) - 1)
        ch == char(index)
    IN  IF index >= length THEN FALSE
        ELSE IF top = "code"
        THEN IF index = target \/ isTagStart(index) THEN FALSE
             ELSE IF ch \in {"'", "\"", Backtick}
             THEN InLiteral(index + 1, Append(modes, ch), target)
             ELSE IF isExpect(<<"/", "/">>, index) \/ isExpect(<<"/", "*">>, index)
             THEN InLiteral(index + 2, Append(modes, char(index + 1)), target)
             ELSE IF ch = "/" THEN FALSE
             ELSE IF ch = "}" /\ modes # <<>>
             THEN InLiteral(index + 1, closed, target)
             ELSE InLiteral(index + 1, modes, target)
        ELSE IF index = target THEN TRUE
        ELSE IF top \in {"'", "\"", Backtick} /\ ch = "\\"
        THEN target = index + 1 \/ InLiteral(index + 2, modes, target)
        ELSE IF top = Backtick /\ isExpect(<<"$", "{">>, index)
        THEN InLiteral(index + 2, Append(modes, "code"), target)
        ELSE IF top \in {"'", "\"", Backtick} /\ ch = top
        THEN InLiteral(index + 1, closed, target)
        ELSE IF top = "/" /\ ch = "\n"
        THEN InLiteral(index + 1, closed, target)
        ELSE IF top = "*" /\ isExpect(<<"*", "/">>, index)
        THEN InLiteral(index + 2, closed, target)
        ELSE InLiteral(index + 1, modes, target)

\* C9: a tag start inside a string literal, a template literal (one nested in
\* the ${ } of another included) or a comment of a script is not taken for
\* markup: the loop of parse never stands at such a tag start, where scanJS
\* would have stopped and scanJSX would make a node of it.
C9_LiteralsHideMarkup ==
    (pstatus = "parsing" /\ isTagStart(cur.index))
        => ~InLiteral(0, <<>>, cur.index)

\* the newline characters in source[0..index)
NewlinesBefore(index) == {k \in 0..(length - 1) : k < index /\ char(k) = "\n"}

\* C10: between the calls of advance and when the parse ends, line is 1 plus
\* the number of newline characters in source[0..index), and column is 1 plus
\* the number of characters between the last newline before index (or the
\* start of the source) and index.
C10_CountersAgreeWithText ==
    pstatus \in {"parsing", "done"}
        => /\ cur.line = 1 + Cardinality(NewlinesBefore(cur.index))
           /\ \/ /\ NewlinesBefore(cur.index) = {}
                 /\ cur.column = 1 + cur.index
              \/ \E k \in NewlinesBefore(cur.index) :
                     /\ \A h \in NewlinesBefore(cur.index) : h <= k
                     /\ cur.column = 1 + (cur.index - k - 1)

\* the line and the column of the character at index, counted in the source
PositionOf(index) ==
    [line |-> 1 + Cardinality(NewlinesBefore(index)),
     column |-> IF NewlinesBefore(index) = {} THEN 1 + index
                ELSE index - (CHOOSE k \in NewlinesBefore(index) :
                                  \A h \in NewlinesBefore(index) : h <= k)]

\* C11: when a source parses, the loc of a node is the line and column of the
\* first character of the node's syntax: the first node of the source has the
\* position of index 0, and every element kept among the children of <p> has
\* the position of its opening <.
C11_LocAtFirstCharacter ==
    (pstatus = "done" /\ Len(ast[1]) > 0)
        => /\ ast[1][1].loc = PositionOf(0)
           /\ (IsChildList /\ \A i \in 1..Len(Written) : ~Misplaced(Written, i))
                  => LET kept == Elements(ast[1][1].children)
                         heads == OfKinds(Written, {"if", "plain"}, 1)
                     IN  \A h \in 1..Len(heads) :
                             kept[h].loc = PositionOf(heads[h].at)

\* the index after the <q> of a source that opens with <q>, at its start or
\* after BrokenImport; -1 for any other source
AfterOpenTag ==
    IF isExpect(<<"<", "q", ">">>, 0) THEN 3
    ELSE IF isExpect(BrokenImport \o <<"<", "q", ">">>, 0) THEN Len(BrokenImport) + 3
    ELSE -1

\* the children of <q> read from index on with depth delimiters open: the
\* index of the opening delimiter of the expression the source ends inside,
\* -1 if it ends outside any expression
RECURSIVE EndsInside(_, _, _)
EndsInside(index, depth, opening) ==
    IF index >= length THEN (IF depth > 0 THEN opening ELSE -1)
    ELSE IF char(index) = "{"
    THEN EndsInside(index + 1, depth + 1, IF depth = 0 THEN index ELSE opening)
    ELSE IF char(index) = "}" /\ depth > 0
    THEN EndsInside(index + 1, depth - 1, opening)
    ELSE EndsInside(index + 1, depth, opening)

\* C12: when the source ends inside an expression, the parse ends with a parse
\* error whose line and column are those of the opening delimiter of that
\* expression.
C12_UnclosedExpressionLocated ==
    (/\ pstatus \in {"done", "error", "hang"}
     /\ AfterOpenTag >= 0
     /\ EndsInside(AfterOpenTag, 0, -1) >= 0)
        => /\ pstatus = "error"
           /\ cur.ekind = "ParseError"
           /\ [line |-> cur.eline, column |-> cur.ecol]
                  = PositionOf(EndsInside(AfterOpenTag, 0, -1))

\* C13: a parse that does not complete ends with one parse error that carries
\* a line and a column, thrown by throwError, in development and in production
\* alike, and ast is not assigned.
C13_MalformedEndsInParseError ==
    pstatus \in {"error", "hang"}
        => /\ pstatus = "error"
           /\ cur.ekind = "ParseError"
           /\ cur.eline >= 1
           /\ ast = <<>>

\* the index after the last of the children written from index 3 on
ChildrenEnd ==
    IF Written = <<>> THEN 3
    ELSE Written[Len(Written)].at
             + Len(ChildKinds[CHOOSE k \in DOMAIN ChildKinds :
                       ChildKinds[k].kind = Written[Len(Written)].kind].piece)

\* what is written after the children of <q>, <<>> for any other source
ClosingWritten ==
    IF isExpect(<<"<", "q", ">">>, 0) THEN getValue(ChildrenEnd, length) ELSE <<>>

\* C14 as claimed: an element <q> closed by a tag of another name, or by its
\* own with white space before >, parses.
C14_AnyClosingNameParses ==
    (pstatus \in {"done", "error", "hang"} /\ ClosingWritten \in Closings
         /\ \A i \in 1..Len(Written) : ~Misplaced(Written, i))
        => pstatus = "done"

\* C14 as amended: the loop over the children ends at the very sequence </q>
\* only, so <q> closed by </q> parses, and <q> closed by a tag of another name
\* or by </q > with white space before >, with no </q> after it, does not: the
\* closing tag is read as text and the parse ends with an error.
C14_ClosingNameMustMatch ==
    (pstatus \in {"done", "error", "hang"} /\ ClosingWritten \in Closings
         /\ \A i \in 1..Len(Written) : ~Misplaced(Written, i))
        => IF ClosingWritten = <<"<", "/", "q", ">">>
           THEN /\ pstatus = "done"
                /\ ast[1][1].value = <<"q">>
           ELSE /\ pstatus = "error"
                /\ cur.ekind = "ParseError"
                /\ cur.emsg = "Unclosed tag"

\* the parse of <q> closed by a tag of another name has ended
C14_Witness ==
    /\ pstatus = "error"
    /\ ClosingWritten = <<"<", "/", "x", ">">>
    /\ Len(Written) = 1
    /\ cur.emsg = "Unclosed tag"

\* C15: the source <div v-if={a}>A</div><div v-else>B</div> parses into one
\* node, the element with v-if, and the next of its if directive is the
\* element with v-else.
C15_RootSiblingsLinked ==
    (pstatus = "done" /\ source = SiblingsAtRoot)
        => /\ Len(ast[1]) = 1
           /\ Directives_If \in DOMAIN ast[1][1].directives
           /\ Len(ast[1][1].directives[Directives_If].next) = 1
           /\ Directives_Else
                  \in DOMAIN ast[1][1].directives[Directives_If].next[1].directives

\* the columns of the elements of the chain headed by the element el, which
\* carries v-if: el and then the elements reached by following next
ChainColumns(el) ==
    <<el.loc.column>>
        \o [c \in 1..Len(ChainParsed(el.directives[Directives_If])) |->
               ChainParsed(el.directives[Directives_If])[c].column]

\* the next links among the children parsed of <p>, each as the column of the
\* element that owns the directive and the column of the element next refers to
Links ==
    UNION {{<<ChainColumns(el)[c], ChainColumns(el)[c + 1]>> :
                c \in 1..(Len(ChainColumns(el)) - 1)} :
           el \in {ast[1][1].children[h] : h \in
                      {h \in 1..Len(ast[1][1].children) :
                           /\ isElementNode(ast[1][1].children[h])
                           /\ Directives_If
                                  \in DOMAIN ast[1][1].children[h].directives}}}

\* C16: the next links form forward chains: next refers to an element written
\* later than the element that owns the directive, no element is referred to by
\* two links, and no link is assigned over another, so that every else-if and
\* else element written is referred to by exactly one link.
C16_ChainsForwardOnly ==
    (pstatus = "done" /\ IsChildList)
        => /\ \A l \in Links : l[1] < l[2]
           /\ \A l, m \in Links : l[2] = m[2] => l = m
           /\ {l[2] : l \in Links}
                  = {ColumnOf(OfKinds(Written, {"else-if", "else"}, 1)[c]) :
                         c \in 1..Len(OfKinds(Written, {"else-if", "else"}, 1))}

\* a chain of two links, from an if to an else-if to an else element, is parsed
C16_Witness ==
    /\ pstatus = "done"
    /\ IsChildList
    /\ Cardinality(Links) = 2
    /\ \E l, m \in Links : l[2] = m[1]

\* C17: when process.env.NODE_ENV is "production", a parse executes none of
\* validateDirectiveValue, validateAttributeForBlock and validateModel, nor
\* the identifier check of parseJSXAttributeName.
C17_NoValidationInProduction ==
    production => cur.validated = {}

\* the source is an element <i .../> put together from attributes
IsAttrList == isExpect(<<"<", "i">>, 0) /\ ~isExpect(<<"<", "i", "m">>, 0)

\* the names of the attributes written from index on, in document order;
\* <<>> for a dynamic attribute
RECURSIVE AttrsWritten(_)
AttrsWritten(index) ==
    IF \A k \in 1..Len(AttrKinds) : ~isExpect(AttrKinds[k].piece, index)
    THEN <<>>
    ELSE LET k == CHOOSE k \in 1..Len(AttrKinds) :
                      isExpect(AttrKinds[k].piece, index)
         IN  <<AttrKinds[k].name>> \o AttrsWritten(index + Len(AttrKinds[k].piece))

\* the names among written that are no names of the directive set, in order
RECURSIVE PlainNames(_)
PlainNames(written) ==
    IF written = <<>> THEN <<>>
    ELSE (IF Head(written) # <<>> /\ Head(written) \notin directivesMap
          THEN <<Head(written)>> ELSE <<>>)
             \o PlainNames(Tail(written))

\* the names of the named attributes of a list of attributes, in order
RECURSIVE NamesStored(_)
NamesStored(attributes) ==
    IF attributes = <<>> THEN <<>>
    ELSE (IF Head(attributes).type = "JSXAttribute"
          THEN <<Head(attributes).name>> ELSE <<>>)
             \o NamesStored(Tail(attributes))

\* the elements of nodes and of their children, at every depth
RECURSIVE ElementsWithin(_)
ElementsWithin(ns) ==
    IF ns = <<>> THEN {}
    ELSE (IF isElementNode(Head(ns))
          THEN {Head(ns)} \cup ElementsWithin(Head(ns).children)
          ELSE {})
             \cup ElementsWithin(Tail(ns))

\* no name is stored both ways, the directives are names of the directive
\* set stored under their name, and the named attributes are not
RoutedExclusively(el) ==
    /\ \A name \in DOMAIN el.directives :
           /\ name \in directivesMap
           /\ el.directives[name].name = name
    /\ \A k \in 1..Len(NamesStored(el.attributes)) :
           /\ NamesStored(el.attributes)[k] \notin directivesMap
           /\ NamesStored(el.attributes)[k] \notin DOMAIN el.directives

\* C19: every parsed element stores an attribute named by the directive set
\* only in directives, under its name, and every other named attribute only
\* in attributes; of the attributes written for an element, exactly the
\* names of the directive set are in directives and exactly the other names
\* are in attributes, in order; keyed is true exactly when one of the named
\* attributes written is called key.
C19_AttributesRoutedExclusively ==
    (pstatus = "done")
        => /\ \A el \in ElementsWithin(ast[1]) : RoutedExclusively(el)
           /\ IsAttrList =>
                  /\ Len(ast[1]) = 1
                  /\ DOMAIN ast[1][1].directives
                         = {AttrsWritten(2)[k] : k \in 1..Len(AttrsWritten(2))}
                               \cap directivesMap
                  /\ NamesStored(ast[1][1].attributes) = PlainNames(AttrsWritten(2))
                  /\ ast[1][1].keyed
                         <=> \E k \in 1..Len(AttrsWritten(2)) :
                                 AttrsWritten(2)[k] = <<"k", "e", "y">>

\* an element with a key attribute and a v-raw directive is parsed
C19_Witness ==
    /\ pstatus = "done"
    /\ IsAttrList
    /\ Len(AttrsWritten(2)) = 2
    /\ ast[1][1].keyed
    /\ Directives_Raw \in DOMAIN ast[1][1].directives
    /\ Len(ast[1][1].attributes) = 1

\* the index at which the last node of the root list starts when the cursor
\* stands right behind it
LastNodeStart == cur.index - Len(nodes[Len(nodes)].value)

\* a statement of the root-level script can start at index: at the start of
\* the source or, spaces, tabs and block comments aside, behind a line break,
\* a semicolon, a closing brace or the end of markup
AtStatementStart(index) ==
    index = 0 \/ getLastCharCode(index) \in {"\n", ";", "}", ">"}

\* the nodes an expression holds
RECURSIVE NodesOfExpressions(_)
NodesOfExpressions(ns) ==
    IF ns = <<>> THEN {}
    ELSE (IF Head(ns).type \in {"JSXExpression", "JSXUnescapeText"}
          THEN {Head(ns).value[k] : k \in 1..Len(Head(ns).value)}
          ELSE {})
             \cup NodesOfExpressions(Tail(ns))

\* C21: a hoisted-import node is produced only for an import keyword at
\* statement position of the root-level script, never for the characters
\* "import " inside a longer identifier or in the middle of a statement, and
\* never inside an expression: the children of elements and the nodes of
\* their expressions hold none.
C21_OnlyImportStatementsHoisted ==
    /\ (pstatus = "parsing" /\ nodes # <<>> /\ nodes[Len(nodes)].type = "JSHoist")
           => AtStatementStart(LastNodeStart)
    /\ pstatus = "done" =>
           \A el \in ElementsWithin(ast[1]) :
               /\ \A k \in 1..Len(el.children) : el.children[k].type # "JSHoist"
               /\ \A n \in NodesOfExpressions(el.children) : n.type # "JSHoist"

\* the source is an indented expression as the child of <p>
IsIndented == isExpect(<<"<", "p", ">", "\n", " ", "{">>, 0)

\* the script of the expression: from the first character that is neither
\* white space nor a comment to the closing delimiter
FragmentStart == skipWhitespaceAndJSComment(Cursor(6, 1, 1)).index
FragmentEnd == CHOOSE k \in 6..length : char(k) = "}" /\ \A m \in 6..(k - 1) : char(m) # "}"

\* the count parseJSXExpression hands to parse
SpacesSupplied ==
    PositionOf(FragmentStart).column
        - (FragmentStart - firstSpaceStart(FragmentStart - 1))

\* text as lines
RECURSIVE LinesOf(_)
LinesOf(text) ==
    IF \A k \in 1..Len(text) : text[k] # "\n" THEN <<text>>
    ELSE LET k == CHOOSE k \in 1..Len(text) :
                      text[k] = "\n" /\ \A m \in 1..(k - 1) : text[m] # "\n"
         IN  <<SubSeq(text, 1, k - 1)>> \o LinesOf(SubSeq(text, k + 1, Len(text)))

FragmentLines == LinesOf(getValue(FragmentStart, FragmentEnd))

\* the number of spaces line starts with
LeadingSpaces(line) ==
    Cardinality({k \in 1..Len(line) : \A m \in 1..k : line[m] = " "})

SpacesOf(k) == [i \in 1..k |-> " "]

\* C22: every line scanJS emits for a script fragment is the source line
\* without a prefix of at most `spaces` space characters (the white space at
\* the end of the fragment aside), so no other character is dropped, and the
\* spaces field is at most the number of spaces the last line starts with.
C22_OnlyLeadingSpacesRemoved ==
    (pstatus = "done" /\ IsIndented) =>
        \A n \in NodesOfExpressions(ast[1][1].children) :
            /\ Len(n.value) <= Len(FragmentLines)
            /\ \A i \in 1..Len(FragmentLines) :
                   IF i <= Len(n.value)
                   THEN \E k \in 0..SpacesSupplied :
                            trimRight(FragmentLines[i])
                                = trimRight(SpacesOf(k) \o n.value[i])
                   ELSE trimRight(FragmentLines[i]) = <<>>
            /\ n.spaces <= LeadingSpaces(FragmentLines[Len(FragmentLines)])

\* the source is root-level script with one /, its last character but one
IsSlashSource ==
    length >= 2 /\ char(length - 2) = "/" /\ char(length - 1) = "b"

\* the / stands behind an identifier character or a closing parenthesis,
\* spaces, tabs and block comments aside
IsDivision ==
    /\ getLastCharCode(length - 2) # ""
    /\ \/ isJSIdentifierPart(getLastCharCode(length - 2))
       \/ getLastCharCode(length - 2) = ")"

\* C23: a / of a script fragment that starts no comment is a division sign
\* when the significant character before it is an identifier character or a
\* closing parenthesis, and scanning goes on; in every other case it opens a
\* regular expression that is read up to the next /, and with no other / in
\* the source the parse fails with 'Unclosed quote'.
C23_SlashOpensRegExp ==
    (pstatus \in {"done", "error", "hang"} /\ IsSlashSource) =>
        IF IsDivision
        THEN pstatus = "done"
        ELSE pstatus = "error" /\ cur.emsg = "Unclosed quote"

\* C24: when the constructor returns, the root parse has consumed the whole
\* source: the cursor has reached the end of the right-trimmed source, so no
\* closing delimiter at brace depth 0 ended the loop of parse(true, 0) early
\* with characters left that belong to no node.
C24_RootParseConsumesAll ==
    pstatus = "done" => cur.index >= length

\* C25: the constructor returns an AST or throws on every source: no call of
\* advance and no turn of the children and attribute loops leaves the cursor
\* where it was with the loop's condition still true, which is the one way
\* a parse can go on for ever.
C25_ParseTerminates ==
    pstatus # "hang"

(***************************************************************************)
(* The unmount walk as a state machine                                     *)
(***************************************************************************)
InitU ==
    /\ uTree \in Trees
    /\ uPhase = "mounted"
    /\ uLog = <<>>
    /\ IdleC
    /\ IdleP
    /\ IdleK

\* unmount(vNode)
Unmount ==
    /\ uPhase = "mounted"
    /\ uLog' = unmount(uTree)
    /\ uPhase' = "unmounted"
    /\ UNCHANGED <<uTree, cvars, pvars, kvars>>

\* remove(vNode, parentDom)
Remove ==
    /\ uPhase = "mounted"
    /\ uLog' = unmount(uTree) \o << Call("removeVNodeDom", uTree.dom, "") >>
    /\ uPhase' = "removed"
    /\ UNCHANGED <<uTree, cvars, pvars, kvars>>

NextU == Unmount \/ Remove

SpecUnmount == InitU /\ [][NextU]_vars

(***************************************************************************)
(* Claims about unmount                                                    *)
(***************************************************************************)
\* d is a proper prefix of e: the node at e lies below the node at d
Below(d, e) == Len(d) < Len(e) /\ SubSeq(e, 1, Len(d)) = d

RECURSIVE NodeAt(_, _)
NodeAt(vNode, path) ==
    IF path = <<>> THEN vNode ELSE NodeAt(vNode.children[Head(path)], Tail(path))

\* the elements of a tree: below elements, fragments and class components
RECURSIVE ReachableElements(_)
ReachableElements(vNode) ==
    (IF BitAnd(vNode.type, Types_Element) # 0 THEN {vNode} ELSE {})
    \cup (IF vNode.type = Types_ComponentFunction THEN {}
          ELSE UNION { ReachableElements(vNode.children[i]) :
                       i \in 1..Len(vNode.children) })

Logged(call) == \E j \in 1..Len(uLog) : uLog[j] = call

\* C1: after unmount(root), unmountDelegatedEvent has been called for every
\* (delegated prop, dom) pair of every element of the tree, the children of a
\* Fragment included.
C1_EveryDelegatedEventUnmounted ==
    uPhase # "mounted" =>
        \A e \in ReachableElements(uTree) : \A i \in 1..Len(e.props) :
            e.props[i] \in delegatedEvents =>
                Logged(Call("unmountDelegatedEvent", e.dom, e.props[i]))

IsHook(call) == call.op \in {"beforeUnmount", "unmounted"}

\* C7: $unmount runs beforeUnmount, the unmount of the last-input subtree,
\* $unmounted = true, off() and the unmounted hook in this order; the flag is
\* still false while beforeUnmount and the hooks of descendants run and true
\* when the component's own unmounted hook runs.
C7_UnmountStepOrder ==
    uPhase # "mounted" =>
        \A k \in 1..Len(uLog) : uLog[k].op = "$unmounted=true" =>
            LET d == uLog[k].dom
                hooks == NodeAt(uTree, d).hooks
            IN  /\ k < Len(uLog) /\ uLog[k + 1] = Call("off", d, "")
                /\ \A i \in 1..Len(uLog) : Below(d, uLog[i].dom) => i < k
                /\ \A i \in 1..Len(uLog) :
                      (uLog[i] = Call("$unmounted=true", d, "")) => i = k
                /\ hooks =>
                      /\ k + 2 <= Len(uLog) /\ uLog[k + 2] = Call("unmounted", d, "")
                      /\ \E j \in 1..(k - 1) :
                            /\ uLog[j] = Call("beforeUnmount", d, "")
                            /\ \A i \in 1..Len(uLog) : Below(d, uLog[i].dom) => j < i
                            /\ \A i \in (j + 1)..(k - 1) : Below(d, uLog[i].dom)
                /\ ~hooks => ~Logged(Call("beforeUnmount", d, ""))
                            /\ ~Logged(Call("unmounted", d, ""))

\* a component with hooks was unmounted below another component with hooks
C7_Witness ==
    /\ uPhase = "unmounted"
    /\ \E k, m \in 1..Len(uLog) :
          /\ uLog[k].op = "unmounted" /\ uLog[m].op = "unmounted"
          /\ Below(uLog[m].dom, uLog[k].dom)

\* the calls that tear one VNode down
IsTeardown(call) ==
    call.op \in {"unmountRef", "unmountDelegatedEvent", "beforeUnmount",
                 "$unmounted=true", "off", "unmounted"}

\* C20: for every element with descendants, the release of its ref and the
\* unregistration of its delegated events come after every teardown call of
\* every descendant: children are torn down before their parents.
C20_ChildrenBeforeParents ==
    uPhase # "mounted" =>
        \A k, m \in 1..Len(uLog) :
            (/\ uLog[k].op \in {"unmountRef", "unmountDelegatedEvent"}
             /\ BitAnd(NodeAt(uTree, uLog[k].dom).type, Types_Element) # 0
             /\ IsTeardown(uLog[m])
             /\ Below(uLog[k].dom, uLog[m].dom))
                => m < k

(***************************************************************************)
(* The keyed children of a container: render(vNode1, container) mounts the *)
(* children array of vNode1, render(vNode2, container) patches it into the *)
(* children array of vNode2.  A child is h('i', {key}) or h(Test, {key}),  *)
(* Test being the class component of the Patch tests whose template        *)
(* returns two root elements.  The diff itself follows its documented      *)
(* behaviour: a stable prefix and suffix, the children absent from the new *)
(* array unmounted, the children absent from the old array mounted, and    *)
(* the children outside a longest increasing subsequence of old positions  *)
(* moved by insertBefore.                                                  *)
(***************************************************************************)
MaxKeys == 3
TestRoots == 2

ChildKeys == 1..MaxKeys
ChildTags == {"i", "Test"}

\* h(tag, {key: key})
KeyedVNode(key, tag) == [key |-> key, tag |-> tag]

\* the children arrays: one child per key, at most
KeyedArrays ==
    {a \in UNION {[1..n -> [key : ChildKeys, tag : ChildTags]] : n \in 1..MaxKeys} :
        \A i, j \in DOMAIN a : a[i].key = a[j].key => i = j}

keysOf(a) == {a[i].key : i \in DOMAIN a}

\* a child of a later render with the key of an earlier child is the same
\* kind of VNode
sameTypes(a, b) ==
    \A i \in DOMAIN a, j \in DOMAIN b : a[i].key = b[j].key => a[i].tag = b[j].tag

\* the DOM nodes a mounted child owns, in the order its template returns them
rootsOf(v) ==
    [r \in 1..(IF v.tag = "Test" THEN TestRoots ELSE 1) |-> [of |-> v.key, root |-> r]]

NoAnchor == [of |-> 0, root |-> 0]

\* parentDom.insertBefore(node, anchor) for each node of newNodes, none of
\* which is in dom; a null anchor appends
insertBefore(dom, newNodes, anchor) ==
    IF anchor = NoAnchor
    THEN dom \o newNodes
    ELSE SubSeq(dom, 1, (CHOOSE i \in DOMAIN dom : dom[i] = anchor) - 1)
         \o newNodes
         \o SubSeq(dom, CHOOSE i \in DOMAIN dom : dom[i] = anchor, Len(dom))

\* the DOM nodes of dom that are not among gone
removeChildren(dom, gone) ==
    SelectSeq(dom, LAMBDA n : \A r \in DOMAIN gone : gone[r] # n)

\* the state of a patch: the container's child nodes and the log
mountBefore(p, v, anchor) ==
    [dom |-> insertBefore(p.dom, rootsOf(v), anchor),
     log |-> Append(p.log, [op |-> "mount", key |-> v.key])]

unmountAndRemove(p, v) ==
    [dom |-> removeChildren(p.dom, rootsOf(v)),
     log |-> Append(p.log, [op |-> "unmount", key |-> v.key])]

moveFirstRootOnly(p, v, anchor) ==
    [dom |-> insertBefore(removeChildren(p.dom, <<rootsOf(v)[1]>>),
                          <<rootsOf(v)[1]>>, anchor),
     log |-> Append(p.log, [op |-> "move", key |-> v.key])]

\* insertBefore moves a node that is in the document already: every DOM
\* node of the child goes in front of the anchor
moveVNodeDom(p, v, anchor) ==
    [dom |-> insertBefore(removeChildren(p.dom, rootsOf(v)), rootsOf(v), anchor),
     log |-> Append(p.log, [op |-> "move", key |-> v.key])]

\* the number of leading children with equal keys
stablePrefix(a, b) ==
    CHOOSE n \in 0..Len(a) :
        /\ n <= Len(b)
        /\ \A i \in 1..n : a[i].key = b[i].key
        /\ (n < Len(a) /\ n < Len(b)) => a[n + 1].key # b[n + 1].key

\* the number of trailing children with equal keys, short of the prefix
stableSuffix(a, b, j) ==
    CHOOSE n \in 0..(Len(a) - j) :
        /\ n <= Len(b) - j
        /\ \A i \in 0..(n - 1) : a[Len(a) - i].key = b[Len(b) - i].key
        /\ (n < Len(a) - j /\ n < Len(b) - j) => a[Len(a) - n].key # b[Len(b) - n].key

\* the old position of each new child, 0 for a child the old array lacks
sourcesOf(a, b) ==
    [i \in DOMAIN b |->
        IF b[i].key \in keysOf(a)
        THEN CHOOSE k \in DOMAIN a : a[k].key = b[i].key
        ELSE 0]

increasing(S, sources) ==
    \A i, k \in S : i < k => sources[i] < sources[k]

\* the positions lo..hi of the new array that stay where they are: a longest
\* increasing subsequence of old positions
lisOf(sources, lo, hi) ==
    CHOOSE S \in SUBSET {i \in lo..hi : sources[i] > 0} :
        /\ increasing(S, sources)
        /\ \A T \in SUBSET {i \in lo..hi : sources[i] > 0} :
               increasing(T, sources) => Cardinality(T) <= Cardinality(S)

\* the DOM node in front of which the new child at position i belongs
anchorOf(b, i) ==
    IF i + 1 <= Len(b) THEN rootsOf(b[i + 1])[1] ELSE NoAnchor

\* the children of the old array the new one lacks, unmounted in order
RECURSIVE removeLoop(_, _, _, _, _)
removeLoop(p, a, b, i, hi) ==
    IF i > hi
    THEN p
    ELSE removeLoop(IF a[i].key \in keysOf(b) THEN p ELSE unmountAndRemove(p, a[i]),
                    a, b, i + 1, hi)

placeStep(p, b, i, sources, seq) ==
    IF sources[i] = 0
    THEN mountBefore(p, b[i], anchorOf(b, i))
    ELSE IF i \notin seq
         THEN moveVNodeDom(p, b[i], anchorOf(b, i))
         ELSE p

\* the new children between the prefix and the suffix, last to first
RECURSIVE placeLoop(_, _, _, _, _, _)
placeLoop(p, b, i, lo, sources, seq) ==
    IF i < lo
    THEN p
    ELSE placeLoop(placeStep(p, b, i, sources, seq), b, i - 1, lo, sources, seq)

patchKeyedMiddle(p, a, b, j, e) ==
    placeLoop(removeLoop(p, a, b, j + 1, Len(a) - e),
              b, Len(b) - e, j + 1, sourcesOf(a, b),
              lisOf(sourcesOf(a, b), j + 1, Len(b) - e))

patchKeyedChildren(p, a, b) ==
    patchKeyedMiddle(p, a, b, stablePrefix(a, b),
                     stableSuffix(a, b, stablePrefix(a, b)))

RECURSIVE mountArrayChildren(_, _, _)
mountArrayChildren(p, a, i) ==
    IF i > Len(a)
    THEN p
    ELSE mountArrayChildren(mountBefore(p, a[i], NoAnchor), a, i + 1)

InitK ==
    /\ uTree = << >> /\ uPhase = "idle" /\ uLog = <<>>
    /\ IdleC
    /\ IdleP
    /\ IdleK

\* render(h('div', null, a), container) into the empty container
RenderFirst(a) ==
    /\ kPhase = "idle"
    /\ kPhase' = "mounted"
    /\ kOld' = a
    /\ kDom' = mountArrayChildren([dom |-> <<>>, log |-> <<>>], a, 1).dom
    /\ kLog' = <<>>
    /\ UNCHANGED <<kNew, uvars, cvars, pvars>>

\* render(h('div', null, b), container) over the children of the first render
RenderNext(b) ==
    /\ kPhase = "mounted"
    /\ sameTypes(kOld, b)
    /\ kPhase' = "patched"
    /\ kNew' = b
    /\ kDom' = patchKeyedChildren([dom |-> kDom, log |-> <<>>], kOld, b).dom
    /\ kLog' = patchKeyedChildren([dom |-> kDom, log |-> <<>>], kOld, b).log
    /\ UNCHANGED <<kOld, uvars, cvars, pvars>>

NextK ==
    \/ \E a \in KeyedArrays : RenderFirst(a)
    \/ \E b \in KeyedArrays : RenderNext(b)

SpecPatch == InitK /\ [][NextK]_vars

RECURSIVE domOfChildren(_, _)
domOfChildren(b, i) ==
    IF i > Len(b) THEN <<>> ELSE rootsOf(b[i]) \o domOfChildren(b, i + 1)

\* C18: after a keyed children array is patched into a permutation of the
\* same keys, the container's child nodes are the root nodes of the new
\* children in the order of the new array, the roots of a component with
\* several roots together and in template order, and no child was mounted
\* or unmounted by the patch.
C18_PermutationReordersInPlace ==
    (kPhase = "patched" /\ keysOf(kNew) = keysOf(kOld)) =>
        /\ kDom = domOfChildren(kNew, 1)
        /\ \A k \in DOMAIN kLog : kLog[k].op = "move"

C18_Witness ==
    /\ kPhase = "patched"
    /\ keysOf(kNew) = keysOf(kOld)
    /\ Len(kNew) = 3
    /\ kNew[1].key = kOld[3].key
    /\ kNew[1].tag = "Test"
    /\ \E k \in DOMAIN kLog : kLog[k].key = kNew[1].key
    /\ kDom = domOfChildren(kNew, 1)

====
